---- MODULE Spec2Model ----
(***************************************************************************)
(* A model of the Instruments .trace importer of the profiler: the keyed-  *)
(* archive expander (expandKeyedArchive), the import pipeline and its      *)
(* file-reader capability (convertInstrumentsProfile), backtrace           *)
(* resolution (importRunFromInstrumentsTrace) and the construction of the  *)
(* per-thread tables (pushThreadsInProfile, getProcessedThread).           *)
(*                                                                         *)
(* JavaScript values are modelled as tagged records.  A value with object  *)
(* identity that lives in the $objects table is referred to by Ptr(k),     *)
(* "the object that is entry k of the table"; a container written inline   *)
(* is a separate object owned by the slot that holds it.  The plist parse  *)
(* tree handed to expandKeyedArchive is a tree: cross references are UIDs. *)
(***************************************************************************)
EXTENDS Integers, Sequences, FiniteSets, TLC

\* Number of entries of the $objects table of the archives explored.
MaxObjects == 2

VARIABLES
    root,       \* the keyed archive handed to expandKeyedArchive, mutated in place
    arInput,    \* the archive as parsed (kept to state the claims)
    arPhase,    \* "idle" | "parsed" | "done" | "error" | "diverged"
    arPre,      \* the $objects table after class reinterpretation, before visit
    arResult,   \* the value expandKeyedArchive returned
    arVisits    \* number of calls of visit made by expandKeyedArchive

VARIABLES
    fileReader, \* the module-level file-reader capability (let fileReader)
    imPc,       \* where each convertInstrumentsProfile call stands
    imTrace,    \* the .trace package each call was given
    imStore,    \* the store subdirectory whose schema.xml a call is reading
    imReads,    \* the file reads made on behalf of each call: <<file, capability>>
    imError,    \* the error each call was rejected with
    imSamples,  \* the sample list getRawSampleList returned to each call
    imProfile   \* the profile each call returned

VARIABLES
    bulkstore,       \* the BinReader over the bulkstore file: its bytes and position
    bsHeaderSize,    \* headerSize
    bsBytesPerEntry, \* bytesPerEntry
    bsSamples,       \* the samples pushed so far
    bsPc,            \* where the parse of the bulkstore stands
    bsRecords        \* what the file was written from (kept to state the claims)

VARIABLES
    plBytes,    \* the byte array handed to parseBinaryPlist
    plPc        \* "buffer" | "decoder" | "error"

VARIABLES
    ipFile,     \* the value handed to isInstrumentsProfile
    ipPc,       \* "called" | "returned"
    ipResult    \* what isInstrumentsProfile returned

VARIABLES
    uqIndex,    \* the BinReader over integeruniquer.index
    uqData,     \* the BinReader over integeruniquer.data
    uqArrays,   \* the arrays pushed so far
    uqPc,       \* where getIntegerArrays stands
    uqWritten   \* what the two files were written from (kept to state the claims)

VARIABLES
    ftArchive,  \* the archive readInstrumentsArchive returned for form.template
    ftRuns,     \* runs
    ftRun,      \* the place in allRunData.runNumbers the outer loop is at
    ftPc        \* where readFormTemplateFile stands

VARIABLES
    urState,    \* the UrlState handed to urlFromState
    urUrl,      \* the location: its pathname and its query
    urParsed,   \* the UrlState stateFromLocation returned
    urPc        \* where the round trip stands

VARIABLES
    arrays,             \* the integer arrays read from the array uniquer
    addressToFrameMap,  \* the run's Map from address to FrameInfo, in insertion order
    samples,            \* the sample list
    backtraceIDtoStack, \* the Map from backtrace id to its resolved stack
    btPc,               \* where importRunFromInstrumentsTrace stands
    btIdx,              \* the sample the first loop over the samples is at
    btKnown,            \* the addresses form.template had a symbol for
    btResolved,         \* the runs of the resolver: <<backtrace id, stack computed>>
    btRegistered        \* the ids registered as raw-address frames, in order

VARIABLES
    profileThreads,     \* profile.threads
    threadIDToSamples,  \* the Map from thread id to its samples, in insertion order
    thPc,               \* where pushThreadsInProfile stands
    thKey,              \* the key of threadIDToSamples whose thread is being built
    thSample,           \* the sample of the group getProcessedThread is at
    thread,             \* the thread getProcessedThread is building, with its key maps
    thAllocated         \* the number of calls of getEmptyThread made

archiveVars == <<root, arInput, arPhase, arPre, arResult, arVisits>>

threadVars ==
    <<profileThreads, threadIDToSamples, thPc, thKey, thSample, thread, thAllocated>>

backtraceVars ==
    <<arrays, addressToFrameMap, samples, backtraceIDtoStack, btPc, btIdx,
      btKnown, btResolved, btRegistered>>

importVars ==
    <<fileReader, imPc, imTrace, imStore, imReads, imError, imSamples, imProfile>>

bulkstoreVars ==
    <<bulkstore, bsHeaderSize, bsBytesPerEntry, bsSamples, bsPc, bsRecords>>

plistVars == <<plBytes, plPc>>

fileVars == <<ipFile, ipPc, ipResult>>

uniquerVars == <<uqIndex, uqData, uqArrays, uqPc, uqWritten>>

templateVars == <<ftArchive, ftRuns, ftRun, ftPc>>

urlVars == <<urState, urUrl, urParsed, urPc>>

\* The byte-level readers, the file-name check, the reader of form.template
\* and the URL of the application.
readerVars == <<bulkstoreVars, plistVars, fileVars, uniquerVars, templateVars, urlVars>>

vars == <<archiveVars, importVars, backtraceVars, threadVars, readerVars>>

\* What the actions of one part of the importer leave alone.
notArchiveVars == <<importVars, backtraceVars, threadVars, readerVars>>

notImportVars == <<archiveVars, backtraceVars, threadVars, readerVars>>

notBacktraceVars == <<archiveVars, importVars, threadVars, readerVars>>

notThreadVars == <<archiveVars, importVars, backtraceVars, readerVars>>

notBulkstoreVars ==
    <<archiveVars, importVars, backtraceVars, threadVars, plistVars, fileVars,
      uniquerVars, templateVars, urlVars>>

notPlistVars ==
    <<archiveVars, importVars, backtraceVars, threadVars, bulkstoreVars, fileVars,
      uniquerVars, templateVars, urlVars>>

notFileVars ==
    <<archiveVars, importVars, backtraceVars, threadVars, bulkstoreVars, plistVars,
      uniquerVars, templateVars, urlVars>>

notUniquerVars ==
    <<archiveVars, importVars, backtraceVars, threadVars, bulkstoreVars, plistVars,
      fileVars, templateVars, urlVars>>

notTemplateVars ==
    <<archiveVars, importVars, backtraceVars, threadVars, bulkstoreVars, plistVars,
      fileVars, uniquerVars, urlVars>>

notUrlVars ==
    <<archiveVars, importVars, backtraceVars, threadVars, bulkstoreVars, plistVars,
      fileVars, uniquerVars, templateVars>>

----------------------------------------------------------------------------
(* JavaScript values *)

Null == [t |-> "null"]
Undef == [t |-> "undef"]
Str(s) == [t |-> "str", s |-> s]
UID(k) == [t |-> "uid", i |-> k]
Ptr(k) == [t |-> "ptr", i |-> k]
Arr(es) == [t |-> "arr", e |-> es]
\* A null-prototype object: its own keys in insertion order, <<key, value>>.
Dict(ps) == [t |-> "dict", p |-> ps]
\* A Map: its entries in insertion order, <<key, value>>.
MapV(ps) == [t |-> "map", p |-> ps]
Num(k) == [t |-> "num", n |-> k]
Bool(b) == [t |-> "bool", b |-> b]
NaN == [t |-> "nan"]
\* A Uint8Array: its bytes.
Bytes(bs) == [t |-> "bytes", b |-> bs]

isDictionary(value) == value.t = "dict"

isArray(value) == value.t = "arr"

isUID(value) == value.t = "uid"

\* key in value
HasKey(value, key) ==
    /\ value.t = "dict"
    /\ \E n \in 1..Len(value.p) : value.p[n][1] = key

\* value[key]
Get(value, key) ==
    IF HasKey(value, key)
    THEN value.p[CHOOSE n \in 1..Len(value.p) : value.p[n][1] = key][2]
    ELSE Undef

\* JavaScript truthiness of the values of the model
Truthy(value) ==
    /\ value.t \notin {"null", "undef", "nan"}
    /\ value # Str("")
    /\ value # Num(0)
    /\ value # Bool(FALSE)

\* Values without object identity: a slot holds the value itself.
IsPrimitive(value) == value.t \in {"null", "undef", "str", "num", "bool", "nan"}

\* array[n] for a 0-based n
At(array, n) == IF n < Len(array.e) THEN array.e[n + 1] ELSE Undef

\* Map.prototype.set: SameValueZero on the key; an inline object is an
\* instance of its own and equals no other key.
SameKey(a, b) == a = b /\ (IsPrimitive(a) \/ a.t = "ptr")

MapSet(ps, k, v) ==
    IF \E n \in 1..Len(ps) : SameKey(ps[n][1], k)
    THEN [n \in 1..Len(ps) |-> IF SameKey(ps[n][1], k) THEN <<ps[n][1], v>> ELSE ps[n]]
    ELSE Append(ps, <<k, v>>)

----------------------------------------------------------------------------
(* patternMatchObjectiveC and the Instruments class hook *)

\* objects[value.index] when value is a UID
followUID(objects, value) ==
    IF isUID(value)
    THEN IF value.i < Len(objects) THEN objects[value.i + 1] ELSE Undef
    ELSE value

\* '$' + k
DollarKeys == <<"$0", "$1", "$2", "$3", "$4", "$5", "$6", "$7", "$8", "$9">>

\* Line 273: for (let i = 1; i < symbolCount; i++); no turn when
\* symbolCount is undefined.
symbolIndices(symbolCount) == 1..(symbolCount - 1)

\* Lines 268-278: case 'PFTPersistentSymbols'
persistentSymbols(object) ==
    LET symbolCount == Get(object, "$4")
        indices == symbolIndices(IF symbolCount.t = "num" THEN symbolCount.n ELSE 0)
    IN  Dict(<< <<"threadNames", Get(object, "$3")>>,
                <<"symbols", Arr([i \in indices |-> Get(object, DollarKeys[4 + i + 1])])>> >>)

\* The hook readInstrumentsArchive passes to expandKeyedArchive.
interpretClass(classname, object) ==
    CASE classname \in {Str("NSTextStorage"), Str("NSParagraphStyle"), Str("NSFont")} ->
            Null
      [] classname = Str("PFTOwnerData") ->
            Dict(<< <<"ownerName", Get(object, "$0")>>, <<"ownerPath", Get(object, "$1")>> >>)
      [] classname = Str("PFTPersistentSymbols") -> persistentSymbols(object)
      [] classname = Str("XRRunListData") ->
            Dict(<< <<"runNumbers", Get(object, "$0")>>, <<"runData", Get(object, "$1")>> >>)
      [] classname = Str("XRCore") ->
            Dict(<< <<"number", Get(object, "$0")>>, <<"name", Get(object, "$1")>> >>)
      [] OTHER -> object

\* NS.object.0, NS.object.1, ... until a key is absent
RECURSIVE ProbeObjects(_, _, _)
ProbeObjects(value, names, acc) ==
    IF names = <<>> \/ ~HasKey(value, Head(names))
    THEN acc
    ELSE ProbeObjects(value, Tail(names), Append(acc, Get(value, Head(names))))

RECURSIVE ZipIntoMap(_, _, _, _)
ZipIntoMap(keys, objs, n, acc) ==
    IF n >= Len(keys.e)
    THEN acc
    ELSE ZipIntoMap(keys, objs, n + 1, MapSet(acc, At(keys, n), At(objs, n)))

Thrown == [t |-> "throw"]

\* Math.pow(base, n) for a natural n
RECURSIVE pow(_, _)
pow(base, n) == IF n = 0 THEN 1 ELSE base * pow(base, n - 1)

\* A mutant of digitWeight: the digits are weighted as bytes.
digitWeight256(i) == pow(256, i)

\* Line 84: Math.pow(65536, i)
digitWeight(i) == pow(65536, i)

\* Lines 71-73: the elements of the Uint16Array over the bytes of
\* NS.mantissa, in the byte order of a little-endian host.
mantissaOf(value) ==
    LET m == Get(value, "NS.mantissa")
        bytes == IF m.t = "bytes" THEN m.b ELSE <<>>
    IN  [i \in 1..(Len(bytes) \div 2) |-> bytes[2 * i - 1] + 256 * bytes[2 * i]]

\* Line 81: ((digit & 0xff00) >> 8) | ((digit & 0x00ff) << 8)
swapBytes(digit) == (digit \div 256) + (digit % 256) * 256

\* Lines 77-85: the loop from digit i on; NaN once a digit past the end of
\* the mantissa is read.
RECURSIVE sumDigits(_, _, _, _, _)
sumDigits(mantissa, length, byteOrder, i, decimal) ==
    IF i >= length
    THEN Num(decimal)
    ELSE IF i >= Len(mantissa)
    THEN NaN
    ELSE LET digit == IF byteOrder # 1 THEN swapBytes(mantissa[i + 1]) ELSE mantissa[i + 1]
         IN  sumDigits(mantissa, length, byteOrder, i + 1, decimal + digit * digitWeight(i))

\* Lines 67-89: case 'NSDecimalNumberPlaceholder', for a length and an
\* exponent that are natural numbers.
decimalNumber(value) ==
    LET length == Get(value, "NS.length").n
        exponent == Get(value, "NS.exponent").n
        byteOrder == Get(value, "NS.mantissa.bo").n
        negative == Get(value, "NS.negative")
        sum == sumDigits(mantissaOf(value), length, byteOrder, 0, 0)
    IN  IF sum = NaN
        THEN NaN
        ELSE LET decimal == sum.n * pow(10, exponent)
             IN  IF Truthy(negative) THEN Num(-decimal) ELSE Num(decimal)

\* The value patternMatchObjectiveC returns, or Thrown for the TypeError
\* of reading $classname of undefined or null.
patternMatchObjectiveC(objects, value) ==
    IF isDictionary(value) /\ Truthy(Get(value, "$class"))
    THEN LET cls == followUID(objects, Get(value, "$class")) IN
         IF cls.t \in {"undef", "null"}
         THEN Thrown
         ELSE LET name == Get(cls, "$classname") IN
              CASE name = Str("NSDecimalNumberPlaceholder") -> decimalNumber(value)
                [] name \in {Str("NSArray"), Str("NSMutableArray")} ->
                      IF HasKey(value, "NS.objects")
                      THEN Get(value, "NS.objects")
                      ELSE Arr(ProbeObjects(value, <<"NS.object.0", "NS.object.1">>, <<>>))
                [] name \in {Str("NSDictionary"), Str("NSMutableDictionary")} ->
                      IF HasKey(value, "NS.keys") /\ HasKey(value, "NS.objects")
                      THEN MapV(ZipIntoMap(Get(value, "NS.keys"), Get(value, "NS.objects"), 0, <<>>))
                      ELSE IF HasKey(value, "NS.key.0") /\ HasKey(value, "NS.object.0")
                           THEN MapV(<< <<Get(value, "NS.key.0"), Get(value, "NS.object.0")>> >>)
                           ELSE MapV(<<>>)
                [] OTHER -> interpretClass(name, value)
    ELSE value

\* Lines 190-201: the $null substitution, then the table rewritten entry by
\* entry, each entry seeing the entries before it already rewritten.
RECURSIVE PatternMatchFrom(_, _)
PatternMatchFrom(objects, n) ==
    IF n > Len(objects)
    THEN [objects |-> objects, thrown |-> FALSE]
    ELSE LET m == patternMatchObjectiveC(objects, objects[n]) IN
         IF m = Thrown
         THEN [objects |-> objects, thrown |-> TRUE]
         ELSE PatternMatchFrom([objects EXCEPT ![n] = m], n + 1)

SubstituteNull(objects) ==
    IF Len(objects) > 0 /\ objects[1] = Str("$null")
    THEN [objects EXCEPT ![1] = Null]
    ELSE objects

----------------------------------------------------------------------------
(* visit: the reference resolution of expandKeyedArchive *)

\* A mutant of TableRef: the entry is copied into the slot, not referred to.
TableCopy(objects, k) ==
    IF k >= Len(objects) THEN Undef ELSE objects[k + 1]

\* root.$objects[k] as a value stored into a slot: the entry itself when it
\* is an object (by reference), its value when it is a primitive, undefined
\* when k is no index of the table.

TableRef(objects, k) ==
    IF k >= Len(objects)
    THEN Undef
    ELSE IF IsPrimitive(objects[k + 1]) THEN objects[k + 1] ELSE Ptr(k)

RECURSIVE visit(_, _, _)
RECURSIVE visitElements(_, _, _, _)
RECURSIVE visitValues(_, _, _, _)
RECURSIVE visitEntries(_, _, _, _)

\* A mutant of visitUID: the reference is followed and its target expanded
\* in place of being returned.
visitUIDFollowing(objects, object, fuel) ==
    IF object.i < Len(objects)
    THEN visit(objects, objects[object.i + 1], fuel)
    ELSE [v |-> Undef, fuel |-> fuel]

\* Lines 205-206: a UID is replaced by the table entry; the entry is not
\* visited from here.
visitUID(objects, object, fuel) ==
    [v |-> TableRef(objects, object.i), fuel |-> fuel]

\* visit(object) with `fuel` calls left; fuel 0 in the result: the calls ran out.
visit(objects, object, fuel) ==
    IF fuel = 0
    THEN [v |-> object, fuel |-> 0]
    ELSE CASE isUID(object) -> visitUID(objects, object, fuel - 1)
           [] isArray(object) ->
                LET r == visitElements(objects, object.e, <<>>, fuel - 1)
                IN  [v |-> Arr(r.v), fuel |-> r.fuel]
           [] isDictionary(object) ->
                LET r == visitValues(objects, object.p, <<>>, fuel - 1)
                IN  [v |-> Dict(r.v), fuel |-> r.fuel]
           [] object.t = "map" ->
                LET r == visitEntries(objects, object.p, <<>>, fuel - 1)
                IN  [v |-> MapV(r.v), fuel |-> r.fuel]
           [] OTHER -> [v |-> object, fuel |-> fuel - 1]

visitElements(objects, todo, acc, fuel) ==
    IF todo = <<>>
    THEN [v |-> acc, fuel |-> fuel]
    ELSE LET r == visit(objects, Head(todo), fuel)
         IN  visitElements(objects, Tail(todo), Append(acc, r.v), r.fuel)

visitValues(objects, todo, acc, fuel) ==
    IF todo = <<>>
    THEN [v |-> acc, fuel |-> fuel]
    ELSE LET r == visit(objects, Head(todo)[2], fuel)
         IN  visitValues(objects, Tail(todo), Append(acc, <<Head(todo)[1], r.v>>), r.fuel)

visitEntries(objects, todo, acc, fuel) ==
    IF todo = <<>>
    THEN [v |-> acc, fuel |-> fuel]
    ELSE LET k == visit(objects, Head(todo)[1], fuel)
             v == visit(objects, Head(todo)[2], k.fuel)
         IN  visitEntries(objects, Tail(todo), MapSet(acc, k.v, v.v), v.fuel)

\* The number of values of a parse tree: one call of visit each.
RECURSIVE NodeCount(_)
RECURSIVE NodeCountAll(_)
NodeCount(value) ==
    CASE value.t = "arr" -> 1 + NodeCountAll(value.e)
      [] value.t = "dict" -> 1 + NodeCountAll([n \in 1..Len(value.p) |-> value.p[n][2]])
      [] value.t = "map" ->
            1 + NodeCountAll([n \in 1..Len(value.p) |-> value.p[n][1]])
              + NodeCountAll([n \in 1..Len(value.p) |-> value.p[n][2]])
      [] OTHER -> 1

NodeCountAll(values) ==
    IF values = <<>> THEN 0 ELSE NodeCount(Head(values)) + NodeCountAll(Tail(values))

\* Lines 224-226: every entry of the table is visited, in place; what
\* visit returns for the entry is dropped.
RECURSIVE VisitTableFrom(_, _, _, _)
VisitTableFrom(objects, pre, n, fuel) ==
    IF n > Len(objects)
    THEN [objects |-> objects, fuel |-> fuel]
    ELSE LET r == visit(pre, objects[n], fuel) IN
         VisitTableFrom(
             IF isUID(objects[n]) THEN objects ELSE [objects EXCEPT ![n] = r.v],
             pre, n + 1, r.fuel)

\* A mutant of ValidArchive: $version and $archiver are not looked at.
ValidTopAndObjects(r) ==
    /\ isDictionary(r.top)
    /\ r.isArrayObjects

\* Lines 180-185, negated: the four sanity checks.
ValidArchive(r) ==
    /\ r.version = 100000
    /\ r.archiver = "NSKeyedArchiver"
    /\ isDictionary(r.top)
    /\ r.isArrayObjects

\* expandKeyedArchive(root, interpretClass) as called by readInstrumentsArchive:
\* the archive as it is left, what is returned, and how the call ended.
expandKeyedArchive(r) ==
    IF ~ValidArchive(r)
    THEN [root |-> r, pre |-> r.objects, result |-> Undef, phase |-> "error", visits |-> 0]
    ELSE LET matched == PatternMatchFrom(SubstituteNull(r.objects), 1)
             pre == matched.objects
             budget == NodeCountAll(pre) + NodeCount(r.top) + 1
             table == VisitTableFrom(pre, pre, 1, budget)
             top == visit(pre, r.top, table.fuel)
         IN  IF matched.thrown
             THEN [root |-> [r EXCEPT !.objects = pre], pre |-> pre, result |-> Undef,
                   phase |-> "error", visits |-> 0]
             ELSE [root |-> [r EXCEPT !.objects = table.objects, !.top = top.v],
                   pre |-> pre, result |-> top.v,
                   phase |-> IF top.fuel = 0 THEN "diverged" ELSE "done",
                   visits |-> budget - top.fuel]

----------------------------------------------------------------------------
(* The archives explored *)

ObjectIndices == 0..(MaxObjects - 1)

\* UID indices: those of the table and the first one past its end.
UIDIndices == 0..MaxObjects

Leaves == {Str("$null")} \cup {UID(k) : k \in UIDIndices}

ClassDescriptors ==
    {Dict(<< <<"$classname", Str(c)>> >>) : c \in {"NSArray", "NSDictionary", "XRCore"}}

\* A class-tagged object; what it becomes depends on the entry $class names.
Tagged(c, l) ==
    Dict(<< <<"$class", UID(c)>>,
            <<"NS.keys", Arr(<<l>>)>>,
            <<"NS.objects", Arr(<<l>>)>>,
            <<"$0", l>> >>)

Entries ==
    Leaves
    \cup {Dict(<< <<"a", l>> >>) : l \in Leaves}
    \cup ClassDescriptors
    \cup {Tagged(c, l) : c \in UIDIndices, l \in Leaves}

Archives ==
    {[version |-> 100000, archiver |-> "NSKeyedArchiver", isArrayObjects |-> TRUE,
      top |-> Dict(<< <<"root", l>> >>), objects |-> os] :
        l \in Leaves, os \in [1..MaxObjects -> Entries]}

\* No call of convertInstrumentsProfile has been made.
IdleImport ==
    /\ fileReader = "unset"
    /\ imPc = <<>>
    /\ imTrace = <<>>
    /\ imStore = <<>>
    /\ imReads = <<>>
    /\ imError = <<>>
    /\ imSamples = <<>>
    /\ imProfile = <<>>

\* importRunFromInstrumentsTrace has not been called.
IdleBacktrace ==
    /\ arrays = <<>>
    /\ addressToFrameMap = <<>>
    /\ samples = <<>>
    /\ backtraceIDtoStack = <<>>
    /\ btPc = "idle"
    /\ btIdx = 0
    /\ btKnown = {}
    /\ btResolved = <<>>
    /\ btRegistered = <<>>

\* No bulkstore is being parsed.
IdleBulkstore ==
    /\ bulkstore = Undef
    /\ bsHeaderSize = 0
    /\ bsBytesPerEntry = 0
    /\ bsSamples = <<>>
    /\ bsPc = "idle"
    /\ bsRecords = <<>>

\* parseBinaryPlist has not been called.
IdlePlist ==
    /\ plBytes = <<>>
    /\ plPc = "idle"

\* isInstrumentsProfile has not been called.
IdleFile ==
    /\ ipFile = Undef
    /\ ipPc = "idle"
    /\ ipResult = FALSE

\* getIntegerArrays has not been called.
IdleUniquer ==
    /\ uqIndex = Undef
    /\ uqData = Undef
    /\ uqArrays = <<>>
    /\ uqPc = "idle"
    /\ uqWritten = <<>>

\* readFormTemplateFile has not been called.
IdleTemplate ==
    /\ ftArchive = Undef
    /\ ftRuns = <<>>
    /\ ftRun = 0
    /\ ftPc = "idle"

\* No URL is being made or read.
IdleUrl ==
    /\ urState = Undef
    /\ urUrl = Undef
    /\ urParsed = Undef
    /\ urPc = "idle"

IdleOthers == IdleUniquer /\ IdleTemplate /\ IdleUrl

\* The byte-level readers and the file-name check are not running.
IdleReaders == IdleBulkstore /\ IdlePlist /\ IdleFile /\ IdleOthers

\* pushThreadsInProfile has not been called.
IdleThreads ==
    /\ profileThreads = <<>>
    /\ threadIDToSamples = <<>>
    /\ thPc = "idle"
    /\ thKey = 0
    /\ thSample = 0
    /\ thread = Undef
    /\ thAllocated = 0

InitArchive ==
    /\ IdleReaders
    /\ IdleImport
    /\ IdleBacktrace
    /\ IdleThreads
    /\ root \in Archives
    /\ arInput = root
    /\ arPhase = "parsed"
    /\ arPre = root.objects
    /\ arResult = Undef
    /\ arVisits = 0

\* readInstrumentsArchive, after parseBinaryPlist: the archive is expanded.
ExpandKeyedArchive ==
    /\ arPhase = "parsed"
    /\ LET x == expandKeyedArchive(root) IN
        /\ root' = x.root
        /\ arPre' = x.pre
        /\ arResult' = x.result
        /\ arPhase' = x.phase
        /\ arVisits' = x.visits
    /\ UNCHANGED <<arInput, notArchiveVars>>

NextArchive == ExpandKeyedArchive

SpecArchive == InitArchive /\ [][NextArchive]_vars

\* Archives that pass or fail each of the four sanity checks: $version,
\* $archiver, $top (a dictionary, an array, null, or absent) and $objects
\* (an array or not).
CheckedEntries ==
    {Str("$null"), UID(0), Dict(<< <<"$classname", Str("NSArray")>> >>),
     Tagged(1, UID(0))}

CheckedArchives ==
    {[version |-> v, archiver |-> a, isArrayObjects |-> b, top |-> t, objects |-> os] :
        v \in {100000, 100001},
        a \in {"NSKeyedArchiver", "NSArchiver"},
        b \in BOOLEAN,
        t \in {Dict(<< <<"root", UID(0)>> >>), Dict(<< <<"root", Str("$null")>> >>),
               Arr(<<UID(0)>>), Null, Undef},
        os \in [1..MaxObjects -> CheckedEntries]}

InitArchiveCheck ==
    /\ IdleReaders
    /\ IdleImport
    /\ IdleBacktrace
    /\ IdleThreads
    /\ root \in CheckedArchives
    /\ arInput = root
    /\ arPhase = "parsed"
    /\ arPre = root.objects
    /\ arResult = Undef
    /\ arVisits = 0

SpecArchiveCheck == InitArchiveCheck /\ [][NextArchive]_vars

\* The mantissas explored: two 16-bit digits as four bytes, the low digit
\* first and each digit with its low byte first.
Mantissas ==
    {d0 \o d1 : d0 \in {<<0, 0>>, <<1, 0>>, <<1, 2>>, <<255, 255>>},
                d1 \in {<<0, 0>>, <<1, 0>>, <<2, 0>>, <<2, 1>>}}

\* An archived NSDecimalNumber
DecimalPlaceholder(length, exponent, byteOrder, negative, mantissa) ==
    Dict(<< <<"$class", UID(2)>>,
            <<"NS.length", Num(length)>>,
            <<"NS.exponent", Num(exponent)>>,
            <<"NS.mantissa.bo", Num(byteOrder)>>,
            <<"NS.negative", Bool(negative)>>,
            <<"NS.mantissa", Bytes(mantissa)>> >>)

\* Archives whose root is a decimal number: lengths up to one digit more
\* than the mantissa holds, both byte orders, both signs.
DecimalArchives ==
    {[version |-> 100000, archiver |-> "NSKeyedArchiver", isArrayObjects |-> TRUE,
      top |-> Dict(<< <<"root", UID(1)>> >>),
      objects |-> <<Str("$null"),
                    DecimalPlaceholder(length, exponent, byteOrder, negative, mantissa),
                    Dict(<< <<"$classname", Str("NSDecimalNumberPlaceholder")>> >>)>>] :
        length \in 0..3, exponent \in {0, 1}, byteOrder \in {0, 1},
        negative \in BOOLEAN, mantissa \in Mantissas}

InitDecimal ==
    /\ IdleReaders
    /\ IdleImport
    /\ IdleBacktrace
    /\ IdleThreads
    /\ root \in DecimalArchives
    /\ arInput = root
    /\ arPhase = "parsed"
    /\ arPre = root.objects
    /\ arResult = Undef
    /\ arVisits = 0

SpecDecimal == InitDecimal /\ [][NextArchive]_vars

\* The most indexed fields after the count field of the persistent-symbols
\* objects explored.
MaxSymbols == 3

\* An archived PFTPersistentSymbols: $3 the thread names, $4 the count
\* (absent when `count` is Undef), $5, $6, ... the fields that follow.
PersistentSymbols(count, fields) ==
    Dict(<< <<"$class", UID(2)>>, <<"$3", Arr(<<Str("main")>>)>> >>
         \o (IF count = Undef THEN <<>> ELSE << <<"$4", count>> >>)
         \o [i \in 1..Len(fields) |-> <<DollarKeys[4 + i + 1], fields[i]>>])

SymbolArchives ==
    {[version |-> 100000, archiver |-> "NSKeyedArchiver", isArrayObjects |-> TRUE,
      top |-> Dict(<< <<"root", UID(1)>> >>),
      objects |-> <<Str("$null"),
                    PersistentSymbols(count, fields),
                    Dict(<< <<"$classname", Str("PFTPersistentSymbols")>> >>)>>] :
        count \in {Undef} \cup {Num(n) : n \in 0..(MaxSymbols + 1)},
        fields \in UNION {[1..m -> {Str("a"), Str("b")}] : m \in 0..MaxSymbols}}

InitSymbols ==
    /\ IdleReaders
    /\ IdleImport
    /\ IdleBacktrace
    /\ IdleThreads
    /\ root \in SymbolArchives
    /\ arInput = root
    /\ arPhase = "parsed"
    /\ arPre = root.objects
    /\ arResult = Undef
    /\ arVisits = 0

SpecSymbols == InitSymbols /\ [][NextArchive]_vars

----------------------------------------------------------------------------
(* convertInstrumentsProfile: the calls in flight and the file reader *)

\* The calls of convertInstrumentsProfile in flight together.
Imports == {"A", "B"}

\* The fileReaderHelper each call is passed: one of its own.
CapabilityOf(p) == <<"reader", p>>

Coresampler == "com.apple.xray.instrument-type.coresampler2"

\* A store subdirectory by what it holds: no schema.xml ("none"), a
\* schema.xml without the marker name="time-profile" ("other") or one with
\* it; no bulkstore file ("none") or the bulkstore with the named content.
Store(schema, content) == [schema |-> schema, bulkstore |-> content]

\* The subdirectories of 'stores' in the order readEntries listed them,
\* which is the insertion order of the Map extractDirectoryTree builds.
StoreLists ==
    { <<Store("time-profile", "b1")>>,
      <<Store("other", "b1"), Store("time-profile", "b2")>>,
      <<Store("none", "b1"), Store("other", "b2")>> }

\* The files of a store subdirectory that are absent.
AbsentFiles(store) ==
    (IF store.schema = "none" THEN {"schema.xml"} ELSE {})
        \cup (IF store.bulkstore = "none" THEN {"bulkstore"} ELSE {})

\* `run${selectedRun}`
RunKey(selectedRun) ==
    CASE selectedRun = 1 -> "run1"
      [] selectedRun = 2 -> "run2"
      [] OTHER -> "run"

\* A .trace package: the instrument and the first run number form.template
\* holds, the directories and files of the run that are absent, the stores.
Trace(instrument, runNumber, absent, stores) ==
    [instrument |-> instrument, runNumber |-> runNumber, absent |-> absent,
     stores |-> stores]

Traces ==
    {Trace(i, 1, {}, st) :
        i \in {Coresampler, "com.apple.xray.instrument-type.other"}, st \in StoreLists}

\* A file of the tree: its name and, for a file of a store, the place of
\* the store among the subdirectories of 'stores' (0 otherwise).
File(name, store) == [name |-> name, store |-> store]

\* new Error(text) with what the template literal put into the text.
Error(text, detail) == [text |-> text, detail |-> detail]

NoError == Error("", "")

\* The profile convertInstrumentsProfile returns, by the sample list in it.
Profile(sampleList) == [platform |-> "Macintosh", samples |-> sampleList]

NoProfile == [platform |-> "", samples |-> "none"]

\* No archive is being expanded.
IdleArchive ==
    /\ root = Undef
    /\ arInput = Undef
    /\ arPhase = "idle"
    /\ arPre = <<>>
    /\ arResult = Undef
    /\ arVisits = 0

\* The calls of convertInstrumentsProfile before any of them is made.
CallsOf(traces) ==
    /\ fileReader = "unset"
    /\ imPc = [p \in Imports |-> "idle"]
    /\ imTrace = traces
    /\ imStore = [p \in Imports |-> 0]
    /\ imReads = [p \in Imports |-> <<>>]
    /\ imError = [p \in Imports |-> NoError]
    /\ imSamples = [p \in Imports |-> "none"]
    /\ imProfile = [p \in Imports |-> NoProfile]

InitImport ==
    /\ IdleArchive
    /\ IdleBacktrace
    /\ IdleThreads
    /\ IdleReaders
    /\ \E traces \in [Imports -> Traces] : CallsOf(traces)

\* fileReader(file).asArrayBuffer() / .asText() on behalf of call p: the
\* capability is whatever the module-level variable holds at the call.
ReadFile(p, file) ==
    imReads' = [imReads EXCEPT ![p] = Append(@, <<file, fileReader>>)]

\* The call is rejected with the error.
Throw(p, error) ==
    /\ imPc' = [imPc EXCEPT ![p] = "failed"]
    /\ imError' = [imError EXCEPT ![p] = error]

\* A mutant of getOrThrow: the error does not say which key.
getOrThrowUnnamed(absent, k) ==
    IF k \in absent THEN Error("Expected key", "") ELSE NoError

\* getOrThrow(map, k) for a Map of the tree: the error thrown, if any.
getOrThrow(absent, k) ==
    IF k \in absent THEN Error("Expected key", k) ELSE NoError

\* Consecutive calls of getOrThrow down the tree: the first error thrown.
RECURSIVE getEachOrThrow(_, _)
getEachOrThrow(absent, keys) ==
    IF keys = <<>>
    THEN NoError
    ELSE IF getOrThrow(absent, Head(keys)) # NoError
    THEN getOrThrow(absent, Head(keys))
    ELSE getEachOrThrow(absent, Tail(keys))

\* A mutant of supportedInstrument: every instrument passes.
anyInstrument(instrument) == TRUE

\* Line 832
supportedInstrument(instrument) == instrument = Coresampler

\* A mutant of hasMarker: a schema.xml of any content matches.
hasSchema(store) == store.schema # "none"

\* Line 397: /name="time-profile"/.exec(schema)
hasMarker(store) == store.schema = "time-profile"

\* The first store subdirectory after `from` that has a schema.xml, 0 if none.
NextSchema(stores, from) ==
    IF \E n \in (from + 1)..Len(stores) : stores[n].schema # "none"
    THEN CHOOSE n \in (from + 1)..Len(stores) :
            /\ stores[n].schema # "none"
            /\ \A m \in (from + 1)..(n - 1) : stores[m].schema = "none"
    ELSE 0

\* Lines 816-817: the call stores its capability in the module-level
\* variable and suspends in extractDirectoryTree.
StartImport(p) ==
    /\ imPc[p] = "idle"
    /\ fileReader' = CapabilityOf(p)
    /\ imPc' = [imPc EXCEPT ![p] = "tree"]
    /\ UNCHANGED <<imTrace, imStore, imReads, imError, imSamples, imProfile, notImportVars>>

\* Lines 817, 499-503: the tree is built; readFormTemplateFile starts the
\* read of form.template and suspends.
TreeExtracted(p) ==
    /\ imPc[p] = "tree"
    /\ ReadFile(p, File("form.template", 0))
    /\ imPc' = [imPc EXCEPT ![p] = "form"]
    /\ UNCHANGED <<fileReader, imTrace, imStore, imError, imSamples, imProfile, notImportVars>>

\* Lines 501-567, 832-836, 452, 391-395: form.template is read; the
\* instrument is checked; the core directory of the run and its stores are
\* looked up; getRawSampleList starts the read of the first schema.xml.
FormTemplateRead(p) ==
    /\ imPc[p] = "form"
    /\ LET t == imTrace[p]
           e == getEachOrThrow(t.absent,
                               <<"corespace", RunKey(t.runNumber), "core", "stores">>)
           n == NextSchema(t.stores, 0) IN
        IF ~supportedInstrument(t.instrument)
        THEN /\ Throw(p, Error("The only supported instrument from .trace import is "
                               \o "\"com.apple.xray.instrument-type.coresampler2\". Got",
                               t.instrument))
             /\ UNCHANGED <<imStore, imReads>>
        ELSE IF e # NoError
        THEN /\ Throw(p, e)
             /\ UNCHANGED <<imStore, imReads>>
        ELSE IF n = 0
        THEN /\ Throw(p, Error("Could not find sample list", ""))
             /\ UNCHANGED <<imStore, imReads>>
        ELSE /\ ReadFile(p, File("schema.xml", n))
             /\ imStore' = [imStore EXCEPT ![p] = n]
             /\ imPc' = [imPc EXCEPT ![p] = "schema"]
             /\ UNCHANGED imError
    /\ UNCHANGED <<fileReader, imTrace, imSamples, imProfile, notImportVars>>

\* Lines 395-402, 427: the schema text is there. Without the marker the
\* next store is tried (or the sample list is not found); with it the
\* bulkstore of the store is looked up and its read starts.
SchemaRead(p) ==
    /\ imPc[p] = "schema"
    /\ LET stores == imTrace[p].stores
           store == stores[imStore[p]]
           n == NextSchema(stores, imStore[p]) IN
        IF hasMarker(store)
        THEN IF getOrThrow(AbsentFiles(store), "bulkstore") # NoError
             THEN /\ Throw(p, getOrThrow(AbsentFiles(store), "bulkstore"))
                  /\ UNCHANGED <<imStore, imReads>>
             ELSE /\ ReadFile(p, File("bulkstore", imStore[p]))
                  /\ imPc' = [imPc EXCEPT ![p] = "bulkstore"]
                  /\ UNCHANGED <<imStore, imError>>
        ELSE IF n = 0
        THEN /\ Throw(p, Error("Could not find sample list", ""))
             /\ UNCHANGED <<imStore, imReads>>
        ELSE /\ ReadFile(p, File("schema.xml", n))
             /\ imStore' = [imStore EXCEPT ![p] = n]
             /\ UNCHANGED <<imPc, imError>>
    /\ UNCHANGED <<fileReader, imTrace, imSamples, imProfile, notImportVars>>

\* Lines 400-425, 333-355: the samples are parsed; getIntegerArrays looks
\* its two files up and starts the read of integeruniquer.index.
BulkstoreRead(p) ==
    /\ imPc[p] = "bulkstore"
    /\ imSamples' = [imSamples EXCEPT ![p] = imTrace[p].stores[imStore[p]].bulkstore]
    /\ LET e == getEachOrThrow(imTrace[p].absent,
                               <<"uniquing", "arrayUniquer", "integeruniquer.index",
                                 "integeruniquer.data">>) IN
        IF e # NoError
        THEN /\ Throw(p, e)
             /\ UNCHANGED imReads
        ELSE /\ ReadFile(p, File("integeruniquer.index", 0))
             /\ imPc' = [imPc EXCEPT ![p] = "index"]
             /\ UNCHANGED imError
    /\ UNCHANGED <<fileReader, imTrace, imStore, imProfile, notImportVars>>

\* Lines 353-358: the index is there; the read of integeruniquer.data starts.
IndexRead(p) ==
    /\ imPc[p] = "index"
    /\ ReadFile(p, File("integeruniquer.data", 0))
    /\ imPc' = [imPc EXCEPT ![p] = "data"]
    /\ UNCHANGED <<fileReader, imTrace, imStore, imError, imSamples, imProfile, notImportVars>>

\* Lines 356-386, 455-495, 838-859: the rest of the call runs without
\* suspending and the profile is returned.
DataRead(p) ==
    /\ imPc[p] = "data"
    /\ imPc' = [imPc EXCEPT ![p] = "done"]
    /\ imProfile' = [imProfile EXCEPT ![p] = Profile(imSamples[p])]
    /\ UNCHANGED <<fileReader, imTrace, imStore, imReads, imError, imSamples, notImportVars>>

NextImport ==
    \E p \in Imports :
        \/ StartImport(p)
        \/ TreeExtracted(p)
        \/ FormTemplateRead(p)
        \/ SchemaRead(p)
        \/ BulkstoreRead(p)
        \/ IndexRead(p)
        \/ DataRead(p)

SpecImport == InitImport /\ [][NextImport]_vars

\* C5: every file read made on behalf of a call of convertInstrumentsProfile
\* goes through the capability passed to that call, also when two calls
\* interleave at their await points.
C5_ReadsThroughOwnCapability ==
    \A p \in DOMAIN imReads : \A n \in 1..Len(imReads[p]) :
        imReads[p][n][2] = CapabilityOf(p)

----------------------------------------------------------------------------
(* importRunFromInstrumentsTrace: the resolution of the backtrace ids *)

\* Number of samples of the sample lists explored.
MaxSamples == 3

\* A string as its characters.
Chars(cs) == [t |-> "str", s |-> cs]

HexDigits ==
    <<"0", "1", "2", "3", "4", "5", "6", "7", "8", "9", "a", "b", "c", "d", "e", "f">>

\* k.toString(16)
RECURSIVE toString16(_)
toString16(k) ==
    IF k < 16
    THEN <<HexDigits[k + 1]>>
    ELSE toString16(k \div 16) \o <<HexDigits[(k % 16) + 1]>>

\* k.toString(), as in a template literal or a string concatenation
RECURSIVE toString10(_)
toString10(k) ==
    IF k < 10
    THEN <<HexDigits[k + 1]>>
    ELSE toString10(k \div 10) \o <<HexDigits[(k % 10) + 1]>>

Max(a, b) == IF a >= b THEN a ELSE b

\* A mutant of zeroPad: the zeros are put after the string.
zeroPadRight(str, width) ==
    str \o [n \in 1..Max(width - Len(str), 0) |-> "0"]

\* zeroPad(s, width): new Array(max(width - s.length, 0) + 1).join('0') + s
zeroPad(str, width) ==
    [n \in 1..Max(width - Len(str), 0) |-> "0"] \o str

\* Lines 469-472: the FrameInfo of an id no symbol and no array is known for.
rawAddressFrame(k) ==
    [key |-> Num(k), name |-> Chars(<<"0", "x">> \o zeroPad(toString16(k), 16)), file |-> Undef]

\* The FrameInfo readFormTemplateFile builds for an address of a symbol.
SymbolFrame(sourcePath, symbolName) ==
    [key |-> Chars(sourcePath \o <<":">> \o symbolName),
     name |-> Chars(symbolName),
     file |-> Chars(sourcePath)]

\* A Map with number keys, as its entries <<key, value>> in insertion order.
MapHas(m, k) == \E n \in 1..Len(m) : m[n][1] = k

MapGet(m, k) == m[CHOOSE n \in 1..Len(m) : m[n][1] = k][2]

MapPut(m, k, v) ==
    IF MapHas(m, k)
    THEN [n \in 1..Len(m) |-> IF m[n][1] = k THEN <<k, v>> ELSE m[n]]
    ELSE Append(m, <<k, v>>)

MapKeys(m) == {m[n][1] : n \in 1..Len(m)}

\* k in arrays
InArrays(k, arrs) == k >= 0 /\ k < Len(arrs)

\* A mutant of Reverse: the sequence is left in the order it was built.
NotReversed(seq) == seq

\* Array.prototype.reverse
Reverse(seq) == [n \in 1..Len(seq) |-> seq[Len(seq) + 1 - n]]

\* appendRecursive(k, stack) on the state st = [map, stack, registered,
\* overflow]. A chain of nested array expansions longer than the table has
\* arrays passes twice through one array and never ends: the call stack
\* overflows (RangeError), which overflow records.
RECURSIVE appendRecursive(_, _, _, _)
RECURSIVE appendEach(_, _, _, _)
appendRecursive(arrs, st, k, depth) ==
    IF st.overflow
    THEN st
    ELSE IF MapHas(st.map, k)
    THEN [st EXCEPT !.stack = Append(@, k)]
    ELSE IF InArrays(k, arrs)
    THEN IF depth >= Len(arrs)
         THEN [st EXCEPT !.overflow = TRUE]
         ELSE appendEach(arrs, st, arrs[k + 1], depth + 1)
    ELSE [st EXCEPT !.map = MapPut(@, k, rawAddressFrame(k)),
                    !.registered = Append(@, k),
                    !.stack = Append(@, k)]

appendEach(arrs, st, addrs, depth) ==
    IF addrs = <<>>
    THEN st
    ELSE appendEach(arrs, appendRecursive(arrs, st, Head(addrs), depth), Tail(addrs), depth)

\* Lines 479-484: the fallback of getOrInsert for a backtrace id.
resolveBacktrace(arrs, map, id) ==
    LET st == appendRecursive(arrs, [map |-> map, stack |-> <<>>, registered |-> <<>>,
                                     overflow |-> FALSE], id, 0)
    IN  [st EXCEPT !.stack = Reverse(@)]

\* A mutant of needsInsert: the fallback runs whether or not the key is there.
needsInsertAlways(m, k) == TRUE

\* getOrInsert, line 324: the fallback runs when the key is absent.
needsInsert(m, k) == ~MapHas(m, k)

\* The ids and addresses of the uniquer files explored: the indices of the
\* array table and one address far above them.
ArrayIndices == {0, 1}

HighAddress == 43981

Ids == ArrayIndices \cup {HighAddress}

\* The arrays the uniquer may hold: at most two ids each.
ArrayContents ==
    {<<>>} \cup {<<a>> : a \in Ids} \cup {<<a, b>> : a \in Ids, b \in Ids}

\* The Map readFormTemplateFile leaves for a set of addresses with a symbol.
RECURSIVE SymbolMap(_)
SymbolMap(addresses) ==
    IF addresses = {}
    THEN <<>>
    ELSE LET a == CHOOSE x \in addresses : \A y \in addresses : x <= y
         IN  <<<<a, SymbolFrame(<<"/", "a", ".", "c">>, <<"f">> \o toString10(a))>>>>
             \o SymbolMap(addresses \ {a})

Sample(n, threadID, backtraceID) ==
    [timestamp |-> n * 1000000, threadID |-> threadID, backtraceID |-> backtraceID,
     hasStack |-> FALSE, backtraceStack |-> <<>>]

InitBacktrace ==
    /\ IdleReaders
    /\ IdleArchive
    /\ IdleImport
    /\ IdleThreads
    /\ arrays \in [1..Cardinality(ArrayIndices) -> ArrayContents]
    /\ btKnown \in SUBSET {1, HighAddress}
    /\ addressToFrameMap = SymbolMap(btKnown)
    /\ \E ids \in [1..MaxSamples -> Ids] :
          samples = [n \in 1..MaxSamples |-> Sample(n, 1, ids[n])]
    /\ backtraceIDtoStack = <<>>
    /\ btPc = "resolve"
    /\ btIdx = 1
    /\ btResolved = <<>>
    /\ btRegistered = <<>>

\* Lines 478-485: one turn of the first loop over the samples.
ResolveSample ==
    /\ btPc = "resolve"
    /\ LET id == samples[btIdx].backtraceID
           r == resolveBacktrace(arrays, addressToFrameMap, id) IN
        IF needsInsert(backtraceIDtoStack, id)
        THEN /\ addressToFrameMap' = r.map
             /\ btRegistered' = btRegistered \o r.registered
             /\ IF r.overflow
                THEN /\ btPc' = "error"
                     /\ UNCHANGED <<backtraceIDtoStack, btResolved, btIdx>>
                ELSE /\ backtraceIDtoStack' = MapPut(backtraceIDtoStack, id, r.stack)
                     /\ btResolved' = Append(btResolved, <<id, r.stack>>)
                     /\ btIdx' = btIdx + 1
                     /\ btPc' = IF btIdx = Len(samples) THEN "assign" ELSE "resolve"
        ELSE /\ btIdx' = btIdx + 1
             /\ btPc' = IF btIdx = Len(samples) THEN "assign" ELSE "resolve"
             /\ UNCHANGED <<addressToFrameMap, btRegistered, backtraceIDtoStack, btResolved>>
    /\ UNCHANGED <<arrays, samples, btKnown, notBacktraceVars>>

\* Lines 487-495: every sample is given the stack stored for its id.
AssignStacks ==
    /\ btPc = "assign"
    /\ samples' = [n \in 1..Len(samples) |->
                     [samples[n] EXCEPT !.hasStack = TRUE,
                        !.backtraceStack = MapGet(backtraceIDtoStack, samples[n].backtraceID)]]
    /\ btPc' = "done"
    /\ UNCHANGED <<arrays, addressToFrameMap, backtraceIDtoStack, btIdx, btKnown,
                   btResolved, btRegistered, notBacktraceVars>>

NextBacktrace == ResolveSample \/ AssignStacks

SpecBacktrace == InitBacktrace /\ [][NextBacktrace]_vars

\* C9: the stack of a backtrace id is computed at most once in an import and
\* stored; every sample ends with the stack computed at that one resolution
\* of its id, so samples with equal ids end with the same frame sequence.
C9_ResolveOnce ==
    /\ \A n, m \in 1..Len(btResolved) : btResolved[n][1] = btResolved[m][1] => n = m
    /\ \A n \in 1..Len(btResolved) :
          /\ MapHas(backtraceIDtoStack, btResolved[n][1])
          /\ MapGet(backtraceIDtoStack, btResolved[n][1]) = btResolved[n][2]
    /\ btPc = "done" =>
          \A n \in 1..Len(samples) :
              /\ samples[n].hasStack
              /\ \E m \in 1..Len(btResolved) :
                    btResolved[m] = <<samples[n].backtraceID, samples[n].backtraceStack>>
              /\ \A m \in 1..Len(samples) :
                    samples[m].backtraceID = samples[n].backtraceID
                        => samples[m].backtraceStack = samples[n].backtraceStack

\* C9 witness: the first and the last sample share a backtrace id, another
\* id was resolved in between, and both ended with the same non-empty stack.
C9_SharedIdResolved ==
    /\ btPc = "done"
    /\ Len(samples) >= 3
    /\ samples[1].backtraceID = samples[3].backtraceID
    /\ samples[2].backtraceID # samples[1].backtraceID
    /\ Len(samples[1].backtraceStack) >= 2
    /\ Len(btResolved) = 2

\* The number a string of hexadecimal digits denotes.
RECURSIVE HexValue(_)
HexValue(cs) ==
    IF cs = <<>>
    THEN 0
    ELSE 16 * HexValue(SubSeq(cs, 1, Len(cs) - 1))
         + (CHOOSE d \in 0..15 : HexDigits[d + 1] = cs[Len(cs)])

\* C10: an id that is neither a key of the address-to-frame map nor an index
\* of the array table is registered in the map once, as a frame named 0x and
\* the id in 16 lowercase hexadecimal digits, and is a leaf of the stack;
\* meeting it again adds nothing.
C10_RawAddressFrame ==
    /\ \A n, m \in 1..Len(btRegistered) : btRegistered[n] = btRegistered[m] => n = m
    /\ Len(addressToFrameMap) = Cardinality(btKnown) + Len(btRegistered)
    /\ Cardinality(MapKeys(addressToFrameMap)) = Len(addressToFrameMap)
    /\ \A n \in 1..Len(btRegistered) :
          LET k == btRegistered[n]
              name == MapGet(addressToFrameMap, k).name.s IN
          /\ k \notin btKnown
          /\ ~InArrays(k, arrays)
          /\ MapGet(addressToFrameMap, k).key = Num(k)
          /\ Len(name) = 18
          /\ name[1] = "0" /\ name[2] = "x"
          /\ \A c \in 3..18 : \E d \in 1..16 : HexDigits[d] = name[c]
          /\ \A c \in 3..(18 - Len(toString16(k))) : name[c] = "0"
          /\ HexValue(SubSeq(name, 3, 18)) = k
          /\ btPc # "error" =>
                \E e \in 1..Len(backtraceIDtoStack) :
                    \E f \in 1..Len(backtraceIDtoStack[e][2]) : backtraceIDtoStack[e][2][f] = k

\* C10 witness: an unknown address was met twice in one backtrace and once
\* more in a later one, and is registered once.
C10_UnknownMetAgain ==
    /\ btRegistered = <<HighAddress>>
    /\ \E e \in 1..Len(backtraceIDtoStack) :
          backtraceIDtoStack[e][2] = <<HighAddress, HighAddress>>
    /\ \E e \in 1..Len(backtraceIDtoStack) :
          backtraceIDtoStack[e][2] = <<HighAddress>>

\* The leaf ids under k, depth first and left to right: k itself when it
\* has a symbol or is no index of the array table, the leaves of the
\* elements of arrays[k] otherwise.
RECURSIVE C21_LeafIds(_, _)
RECURSIVE C21_LeafIdsOfEach(_, _)
C21_LeafIds(k, fuel) ==
    IF k \in btKnown \/ k < 0 \/ k >= Len(arrays)
    THEN <<k>>
    ELSE IF fuel = 0 THEN <<>> ELSE C21_LeafIdsOfEach(arrays[k + 1], fuel - 1)

C21_LeafIdsOfEach(ks, fuel) ==
    IF ks = <<>>
    THEN <<>>
    ELSE C21_LeafIds(Head(ks), fuel) \o C21_LeafIdsOfEach(Tail(ks), fuel)

\* C21: the stack resolved for a backtrace id is the depth-first,
\* left-to-right sequence of the leaf ids under it read backwards, where an
\* id with a frame in the address-to-frame map is a leaf even when it is
\* also an index of the array table.
C21_StackIsReversedLeaves ==
    \A n \in 1..Len(btResolved) :
        LET stack == btResolved[n][2]
            leaves == C21_LeafIds(btResolved[n][1], Len(arrays))
        IN  /\ Len(stack) = Len(leaves)
            /\ \A i \in 1..Len(stack) : stack[i] = leaves[Len(leaves) + 1 - i]

\* C21 witness: id 0 was resolved through the array <<1, HighAddress>>,
\* where 1 has a symbol and is an index of the table too, to the stack
\* <<HighAddress, 1>>.
C21_SymbolBeforeArray ==
    /\ btPc = "done"
    /\ 1 \in btKnown
    /\ arrays[1] = <<1, HighAddress>>
    /\ arrays[2] = <<HighAddress, HighAddress>>
    /\ \E n \in 1..Len(btResolved) : btResolved[n] = <<0, <<HighAddress, 1>> >>

\* C22: the resolution of the backtrace ids ends, with a stack for every
\* sample, whatever the array table holds.
C22_ResolutionTerminates == btPc # "error"

\* An array that holds its own index was met on the way from a sample's id.
C22_SelfReference ==
    /\ btPc = "error"
    /\ arrays[1] = <<0>>
    /\ samples[btIdx].backtraceID = 0

----------------------------------------------------------------------------
(* pushThreadsInProfile and getProcessedThread *)

\* The longest sample list explored.
MaxThreadSamples == 3

\* Map.get as a JavaScript value: undefined for a key that is absent.
MapGetValue(m, k) == IF MapHas(m, k) THEN Num(MapGet(m, k)) ELSE Undef

\* `${value}` and '' + value for a number or a string, as characters.
TemplateString(value) ==
    CASE value.t = "num" -> toString10(value.n)
      [] value.t = "str" -> value.s
      [] value.t = "null" -> <<"n", "u", "l", "l">>
      [] OTHER -> <<"u", "n", "d", "e", "f", "i", "n", "e", "d">>

\* UniqueStringArray.indexForString on the table [id, strings]: the index of
\* the string, which is appended first when the table does not hold it.
indexForString(table, string) ==
    IF \E n \in 1..Len(table.strings) : table.strings[n] = string
    THEN [table |-> table,
          index |-> (CHOOSE n \in 1..Len(table.strings) : table.strings[n] = string) - 1]
    ELSE [table |-> [table EXCEPT !.strings = Append(@, string)],
          index |-> Len(table.strings)]

\* getEmptyThread(): a thread whose tables are new and empty. The n-th call
\* allocates the string table n.
getEmptyThread(n) ==
    [name |-> <<>>,
     funcTable |-> [name |-> <<>>, fileName |-> <<>>, isJS |-> <<>>, resource |-> <<>>,
                    lineNumber |-> <<>>, columnNumber |-> <<>>, length |-> 0],
     frameTable |-> [func |-> <<>>, category |-> <<>>, address |-> <<>>,
                     implementation |-> <<>>, line |-> <<>>, column |-> <<>>, length |-> 0],
     stackTable |-> [prefix |-> <<>>, frame |-> <<>>, category |-> <<>>, length |-> 0],
     stringTable |-> [id |-> n, strings |-> <<>>],
     samples |-> [stack |-> <<>>, time |-> <<>>, responsiveness |-> <<>>, length |-> 0]]

\* getOrCreateFunc on b = [thread, funcKeyToIndex, frameKeyToIndex,
\* stackKeyToIndex], the thread under construction and the three key maps of
\* getProcessedThread.
getOrCreateFunc(b, name, fileName, funcKey) ==
    IF MapHas(b.funcKeyToIndex, funcKey)
    THEN [b |-> b, indexToFunc |-> MapGet(b.funcKeyToIndex, funcKey)]
    ELSE LET t == b.thread.funcTable
             n == indexForString(b.thread.stringTable, name)
             f == indexForString(n.table, fileName)
         IN  [b |-> [b EXCEPT
                        !.funcKeyToIndex = MapPut(@, funcKey, t.length),
                        !.thread.stringTable = f.table,
                        !.thread.funcTable =
                            [name |-> Append(t.name, n.index),
                             fileName |-> Append(t.fileName, f.index),
                             isJS |-> Append(t.isJS, FALSE),
                             resource |-> Append(t.resource, -1),
                             lineNumber |-> Append(t.lineNumber, Null),
                             columnNumber |-> Append(t.columnNumber, Null),
                             length |-> t.length + 1]],
              indexToFunc |-> t.length]

createFrame(b, indexToFunc, frameAddress) ==
    LET t == b.thread.frameTable
        a == indexForString(b.thread.stringTable, TemplateString(frameAddress))
    IN  [b EXCEPT
            !.thread.stringTable = a.table,
            !.thread.frameTable =
                [func |-> Append(t.func, indexToFunc),
                 category |-> Append(t.category, 1),
                 address |-> Append(t.address, a.index),
                 implementation |-> Append(t.implementation, Null),
                 line |-> Append(t.line, Null),
                 column |-> Append(t.column, Null),
                 length |-> t.length + 1],
            !.frameKeyToIndex = MapPut(@, frameAddress, t.length)]

\* A mutant of createStack: the row is given its own index as prefix.
createStackOwnPrefix(b, stackKey, parentIndex, frame) ==
    LET t == b.thread.stackTable
    IN  [b EXCEPT
            !.thread.stackTable =
                [prefix |-> Append(t.prefix, Num(t.length)),
                 frame |-> Append(t.frame, frame),
                 category |-> Append(t.category, 1),
                 length |-> t.length + 1],
            !.stackKeyToIndex = MapPut(@, stackKey, t.length)]

\* A mutant of createStack: the row is not entered in stackKeyToIndex.
createStackUnkeyed(b, stackKey, parentIndex, frame) ==
    LET t == b.thread.stackTable
    IN  [b EXCEPT
            !.thread.stackTable =
                [prefix |-> Append(t.prefix, parentIndex),
                 frame |-> Append(t.frame, frame),
                 category |-> Append(t.category, 1),
                 length |-> t.length + 1]]

\* Lines 664-677
createStack(b, stackKey, parentIndex, frame) ==
    LET t == b.thread.stackTable
    IN  [b EXCEPT
            !.thread.stackTable =
                [prefix |-> Append(t.prefix, parentIndex),
                 frame |-> Append(t.frame, frame),
                 category |-> Append(t.category, 1),
                 length |-> t.length + 1],
            !.stackKeyToIndex = MapPut(@, stackKey, t.length)]

rootFuncName == <<"(", "r", "o", "o", "t", ")">>

rootFrameAddress == Chars(<<"$", "0", "0", "0", "0", "0", "0", "0", "0">>)

rootFuncFileName == <<>>

rootFuncKey == Chars(<<"(", "r", "o", "o", "t", ")">>)

rootStackKey == Chars(<<"r", "o", "o", "t", "S", "t", "a", "c", "k">>)

\* frameMetaData.file || ''
fileOrEmpty(frameMetaData) ==
    IF frameMetaData.file = Undef \/ frameMetaData.file = Chars(<<>>)
    THEN <<>>
    ELSE frameMetaData.file.s

\* A mutant of framesToRegister: only the addresses that occur in the
\* thread's own samples are registered.
framesOfOwnSamples(map, group) ==
    SelectSeq(map, LAMBDA frameData :
        \E n \in 1..Len(group) :
            \E f \in 1..Len(group[n].backtraceStack) :
                group[n].backtraceStack[f] = frameData[1])

\* A mutant of framesToRegister: the frames registered by
\* importRunFromInstrumentsTrace for raw addresses are passed over.
symbolFramesOnly(map, group) ==
    SelectSeq(map, LAMBDA frameData : frameData[2].file # Undef)

\* Line 736: the entries the registration loop of a thread goes through,
\* which are those of the whole map whatever the samples of the thread.
framesToRegister(map, group) == map

\* Lines 736-756: the registration loop over the entries <<address, frame>>.
RECURSIVE registerFrames(_, _)
registerFrames(b, entries) ==
    IF entries = <<>>
    THEN b
    ELSE LET frameMetaData == Head(entries)[2]
             frameAddress == Head(entries)[1]
             f == getOrCreateFunc(b, frameMetaData.name.s, fileOrEmpty(frameMetaData),
                                  frameMetaData.key)
         IN  registerFrames(createFrame(f.b, f.indexToFunc, Num(frameAddress)),
                            Tail(entries))

\* Lines 683-756: the thread with its (root) function, frame and stack and
\* the frames of the map, before any sample is walked.
beginThread(threadId, n, map, group) ==
    LET b0 == [thread |-> [getEmptyThread(n) EXCEPT
                              !.name = <<"T", "h", "r", "e", "a", "d", " ">>
                                       \o toString10(threadId)],
               funcKeyToIndex |-> <<>>,
               frameKeyToIndex |-> <<>>,
               stackKeyToIndex |-> <<>>]
        f == getOrCreateFunc(b0, rootFuncName, rootFuncFileName, rootFuncKey)
        b1 == createFrame(f.b, f.indexToFunc, rootFrameAddress)
        b2 == createStack(b1, rootStackKey, Null,
                          MapGetValue(b1.frameKeyToIndex, rootFrameAddress))
    IN  registerFrames(b2, framesToRegister(map, group))

\* sample.timestamp / 1000000, kept as the quotient it is.
Quotient(a, b) == [num |-> a, den |-> b]

\* Lines 780-783: the row of a sample.
pushSampleRow(b, stack, sample) ==
    LET t == b.thread.samples
    IN  [b EXCEPT !.thread.samples =
            [stack |-> Append(t.stack, stack),
             time |-> Append(t.time, Quotient(sample.timestamp, 1000000)),
             responsiveness |-> Append(t.responsiveness, Null),
             length |-> t.length + 1]]

\* A mutant of keyOfStackKeyToIndexMap: the parent is left out of the key.
keyWithoutParent(parentIndex, frameAddress) ==
    Chars(<<"$", "$">> \o toString10(frameAddress))

\* Line 764: '$' + parentIndex + '$' + frameAddress
keyOfStackKeyToIndexMap(parentIndex, frameAddress) ==
    Chars(<<"$">> \o TemplateString(parentIndex) \o <<"$">> \o toString10(frameAddress))

\* Lines 762-785: the loop over the frames of one sample from `index` on.
RECURSIVE walkStackTrace(_, _, _, _)
walkStackTrace(b, sample, index, parentIndex) ==
    LET stackTrace == sample.backtraceStack IN
    IF index >= Len(stackTrace)
    THEN b
    ELSE LET frameAddress == stackTrace[index + 1]
             key == keyOfStackKeyToIndexMap(parentIndex, frameAddress)
             b1 == IF ~MapHas(b.stackKeyToIndex, key)
                   THEN createStack(b, key, parentIndex,
                                    MapGetValue(b.frameKeyToIndex, Num(frameAddress)))
                   ELSE b
             stack == MapGetValue(b1.stackKeyToIndex, key)
             b2 == IF index = Len(stackTrace) - 1
                   THEN pushSampleRow(b1, stack, sample)
                   ELSE b1
         IN  walkStackTrace(b2, sample, index + 1, stack)

\* A mutant of pushToGroup: the group is replaced by the new sample.
replaceGroup(group, sample) == <<sample>>

\* Line 796: threadIDToSamples.get(sample.threadID).push(sample)
pushToGroup(group, sample) == Append(group, sample)

\* Lines 794-800: the grouping loop.
RECURSIVE groupByThreadID(_, _)
groupByThreadID(m, sampleList) ==
    IF sampleList = <<>>
    THEN m
    ELSE LET sample == Head(sampleList)
         IN  groupByThreadID(
                 IF MapHas(m, sample.threadID)
                 THEN MapPut(m, sample.threadID,
                             pushToGroup(MapGet(m, sample.threadID), sample))
                 ELSE MapPut(m, sample.threadID, <<sample>>),
                 Tail(sampleList))

\* The thread ids, the addresses and the resolved stacks of the samples
\* explored; every address of a stack has a frame in ThreadFrameMap.
ThreadIDs == {1, 2}

ThreadStacks ==
    {<<>>} \cup {<<a>> : a \in {1, HighAddress}}
           \cup {<<a, c>> : a \in {1, HighAddress}, c \in {1, HighAddress}}

\* An address-to-frame map as importRunFromInstrumentsTrace leaves it: two
\* addresses of one symbol, then an address registered without a symbol.
ThreadFrameMap ==
    <<<<1, SymbolFrame(<<"/", "a", ".", "c">>, <<"f">>)>>,
      <<2, SymbolFrame(<<"/", "a", ".", "c">>, <<"f">>)>>,
      <<HighAddress, rawAddressFrame(HighAddress)>>>>

\* pushThreadsInProfile(profile, addressToFrameMap, samples) is called with
\* the map and the samples of a finished importRunFromInstrumentsTrace.
InitThreads ==
    /\ IdleArchive
    /\ IdleReaders
    /\ IdleImport
    /\ arrays = <<>>
    /\ btKnown = {1, 2}
    /\ addressToFrameMap = ThreadFrameMap
    /\ \E len \in 0..MaxThreadSamples :
          \E ids \in [1..len -> ThreadIDs] :
              \E stacks \in [1..len -> ThreadStacks] :
                  samples = [n \in 1..len |->
                                [Sample(n, ids[n], n) EXCEPT !.hasStack = TRUE,
                                                             !.backtraceStack = stacks[n]]]
    /\ backtraceIDtoStack = <<>>
    /\ btPc = "done"
    /\ btIdx = 0
    /\ btResolved = <<>>
    /\ btRegistered = <<>>
    /\ profileThreads = <<>>
    /\ threadIDToSamples = <<>>
    /\ thPc = "group"
    /\ thKey = 0
    /\ thSample = 0
    /\ thread = Undef
    /\ thAllocated = 0

\* Lines 793-800: the samples are grouped by thread id.
GroupSamples ==
    /\ thPc = "group"
    /\ threadIDToSamples' = groupByThreadID(<<>>, samples)
    /\ thKey' = 1
    /\ thPc' = IF samples = <<>> THEN "done" ELSE "begin"
    /\ UNCHANGED <<profileThreads, thSample, thread, thAllocated, notThreadVars>>

\* Lines 802-806 and 683-756: getProcessedThread is entered for the next key
\* and runs up to its loop over the samples.
BeginThread ==
    /\ thPc = "begin"
    /\ thread' = beginThread(threadIDToSamples[thKey][1], thAllocated + 1,
                             addressToFrameMap, threadIDToSamples[thKey][2])
    /\ thAllocated' = thAllocated + 1
    /\ thSample' = 1
    /\ thPc' = "walk"
    /\ UNCHANGED <<profileThreads, threadIDToSamples, thKey, notThreadVars>>

\* Lines 758-786: one turn of the loop over the samples of the group.
WalkSample ==
    /\ thPc = "walk"
    /\ thSample <= Len(threadIDToSamples[thKey][2])
    /\ thread' = walkStackTrace(thread, threadIDToSamples[thKey][2][thSample], 0,
                                MapGetValue(thread.stackKeyToIndex, rootStackKey))
    /\ thSample' = thSample + 1
    /\ UNCHANGED <<profileThreads, threadIDToSamples, thPc, thKey, thAllocated,
                   notThreadVars>>

\* Lines 788 and 808: the thread is returned and pushed to profile.threads.
EndThread ==
    /\ thPc = "walk"
    /\ thSample > Len(threadIDToSamples[thKey][2])
    /\ profileThreads' = Append(profileThreads, thread.thread)
    /\ thread' = Undef
    /\ thSample' = 0
    /\ thKey' = thKey + 1
    /\ thPc' = IF thKey = Len(threadIDToSamples) THEN "done" ELSE "begin"
    /\ UNCHANGED <<threadIDToSamples, thAllocated, notThreadVars>>

NextThreads == GroupSamples \/ BeginThread \/ WalkSample \/ EndThread

SpecThreads == InitThreads /\ [][NextThreads]_vars

\* The thread ids of a sample list.
ThreadIDsOf(sampleList) == {sampleList[n].threadID : n \in 1..Len(sampleList)}

\* The place of the first sample of a thread id in the sample list.
FirstSampleOf(id) ==
    CHOOSE n \in 1..Len(samples) :
        /\ samples[n].threadID = id
        /\ \A m \in 1..(n - 1) : samples[m].threadID # id

\* The time column of the rows of a list of samples.
TimesOf(sampleList) ==
    [n \in 1..Len(sampleList) |-> Quotient(sampleList[n].timestamp, 1000000)]

\* C6: there is one group, and in the end one thread, per distinct thread id
\* of the sample list, in the order in which the ids first occur; the group
\* of an id holds exactly the samples of that id in their original order, and
\* the rows of the thread named after the id are rows of those samples.
C6_OneThreadPerThreadID ==
    /\ thPc # "group" =>
          /\ MapKeys(threadIDToSamples) = ThreadIDsOf(samples)
          /\ Len(threadIDToSamples) = Cardinality(ThreadIDsOf(samples))
          /\ \A k \in 1..Len(threadIDToSamples) :
                LET id == threadIDToSamples[k][1] IN
                /\ threadIDToSamples[k][2] = SelectSeq(samples, LAMBDA s : s.threadID = id)
                /\ \A j \in 1..(k - 1) :
                      FirstSampleOf(threadIDToSamples[j][1]) < FirstSampleOf(id)
    /\ Len(profileThreads) <= Len(threadIDToSamples)
    /\ \A k \in 1..Len(profileThreads) :
          LET id == threadIDToSamples[k][1] IN
          /\ profileThreads[k].name = <<"T", "h", "r", "e", "a", "d", " ">> \o toString10(id)
          /\ profileThreads[k].samples.time =
                TimesOf(SelectSeq(samples, LAMBDA s :
                            s.threadID = id /\ s.backtraceStack # <<>>))
    /\ thPc = "done" => Len(profileThreads) = Cardinality(ThreadIDsOf(samples))

\* C6 witness: the samples of two thread ids interleave, the id met first is
\* the larger one, and its thread comes first with both of its samples.
C6_InterleavedThreads ==
    /\ thPc = "done"
    /\ Len(samples) = 3
    /\ samples[1].threadID = 2 /\ samples[2].threadID = 1 /\ samples[3].threadID = 2
    /\ Len(profileThreads) = 2
    /\ profileThreads[1].name = <<"T", "h", "r", "e", "a", "d", " ", "2">>
    /\ profileThreads[1].samples.time = <<Quotient(1000000, 1000000), Quotient(3000000, 1000000)>>
    /\ profileThreads[2].samples.length = 1

\* The stack table of a thread is a tree rooted at the (root) stack.
StackTreeRooted(t) ==
    /\ t.stackTable.length >= 1
    /\ Len(t.stackTable.prefix) = t.stackTable.length
    /\ Len(t.stackTable.frame) = t.stackTable.length
    /\ t.stackTable.prefix[1] = Null
    /\ t.stackTable.frame[1] = Num(0)
    /\ t.frameTable.func[1] = 0
    /\ t.stringTable.strings[t.frameTable.address[1] + 1] = rootFrameAddress.s
    /\ t.stringTable.strings[t.funcTable.name[1] + 1] = rootFuncName
    /\ \A r \in 2..t.stackTable.length :
          /\ t.stackTable.prefix[r].t = "num"
          /\ t.stackTable.prefix[r].n >= 0
          /\ t.stackTable.prefix[r].n < r - 1

\* C7: in the thread under construction, from its first sample on, and in
\* every finished thread, row 0 of the stack table is the only row with a
\* null prefix and its frame is the (root) frame; the prefix of every other
\* row is the index of an earlier row.
C7_StackTableIsTree ==
    /\ thPc = "walk" => StackTreeRooted(thread.thread)
    /\ \A k \in 1..Len(profileThreads) : StackTreeRooted(profileThreads[k])

\* C7 witness: a finished thread whose tree branches at the root and is two
\* rows deep below it.
C7_BranchingTree ==
    \E k \in 1..Len(profileThreads) :
        LET t == profileThreads[k].stackTable IN
        /\ t.length >= 4
        /\ \E r, q \in 2..t.length : r # q /\ t.prefix[r] = Num(0) /\ t.prefix[q] = Num(0)
        /\ \E r \in 2..t.length : t.prefix[r].n > 0

\* The string tables of the threads built so far.
StringTablesBuilt ==
    {profileThreads[k].stringTable : k \in 1..Len(profileThreads)}
        \cup (IF thPc = "walk" THEN {thread.thread.stringTable} ELSE {})

ThreadsWalked ==
    {<<profileThreads[k], threadIDToSamples[k][2]>> : k \in 1..Len(profileThreads)}
        \cup (IF thPc = "walk"
              THEN {<<thread.thread,
                      SubSeq(threadIDToSamples[thKey][2], 1, thSample - 1)>>}
              ELSE {})

WithFrames(sampleList) == SelectSeq(sampleList, LAMBDA s : s.backtraceStack # <<>>)

\* The frames of the rows from row 0 down to `row` along the prefix links.
RECURSIVE FramesDownTo(_, _, _)
FramesDownTo(t, row, fuel) ==
    IF fuel = 0 \/ row.t # "num"
    THEN <<>>
    ELSE FramesDownTo(t, t.stackTable.prefix[row.n + 1], fuel - 1)
         \o <<t.stackTable.frame[row.n + 1]>>

\* The row of the frame table registered for an address: the one whose
\* address string is the address in decimal.
FrameRowOf(t, address) ==
    Num((CHOOSE f \in 1..t.frameTable.length :
            t.stringTable.strings[t.frameTable.address[f] + 1] = toString10(address)) - 1)

\* C24: the stack index recorded for a sample with a non-empty stack
\* s[0..n-1] is the row whose prefix chain, read from row 0 down, has as
\* frames the (root) frame and then the frames registered for s[0], ...,
\* s[n-1] in that order.
C24_RecordedStackSpellsBacktrace ==
    \A w \in ThreadsWalked :
        LET t == w[1]
            walked == WithFrames(w[2])
        IN  /\ Len(t.samples.stack) = Len(walked)
            /\ \A j \in 1..Len(walked) :
                  LET s == walked[j].backtraceStack IN
                  FramesDownTo(t, t.samples.stack[j], t.stackTable.length)
                      = <<Num(0)>> \o [i \in 1..Len(s) |-> FrameRowOf(t, s[i])]

\* C24 witness: in one finished thread the stacks <<1, HighAddress>> and
\* <<HighAddress, 1>> were recorded, at different rows of depth two.
C24_TwoOrdersOfTwoFrames ==
    /\ thPc = "done"
    /\ Len(profileThreads) = 1
    /\ Len(samples) = 2
    /\ samples[1].backtraceStack = <<1, HighAddress>>
    /\ samples[2].backtraceStack = <<HighAddress, 1>>
    /\ profileThreads[1].samples.stack = <<Num(2), Num(4)>>

\* The non-empty prefixes of the stacks of a list of samples.
PrefixesOf(sampleList) ==
    UNION {{SubSeq(sampleList[n].backtraceStack, 1, i) :
                i \in 1..Len(sampleList[n].backtraceStack)} : n \in 1..Len(sampleList)}

\* C25: no two rows of a thread's stack table have the same prefix and
\* frame; the table has the (root) row and one row per distinct non-empty
\* prefix of the stacks walked, so a stack that equals or is a prefix of
\* one walked before adds no row; and samples with equal stacks are
\* recorded with the same stack index.
C25_OneRowPerParentAndFrame ==
    \A w \in ThreadsWalked :
        LET t == w[1]
            walked == WithFrames(w[2])
        IN  /\ \A r, q \in 1..t.stackTable.length :
                  (/\ t.stackTable.prefix[r] = t.stackTable.prefix[q]
                   /\ t.stackTable.frame[r] = t.stackTable.frame[q]) => r = q
            /\ t.stackTable.length =
                  1 + Cardinality(PrefixesOf(w[2]))
            /\ Len(t.samples.stack) = Len(walked)
            /\ \A j, k \in 1..Len(walked) :
                  walked[j].backtraceStack = walked[k].backtraceStack
                      => t.samples.stack[j] = t.samples.stack[k]

\* C25 witness: a thread walked <<1, HighAddress>>, then its prefix <<1>>,
\* then <<1, HighAddress>> again, and has three stack rows.
C25_PrefixAndRepeatAddNoRow ==
    /\ thPc = "done"
    /\ Len(profileThreads) = 1
    /\ Len(samples) = 3
    /\ samples[1].backtraceStack = <<1, HighAddress>>
    /\ samples[2].backtraceStack = <<1>>
    /\ samples[3].backtraceStack = <<1, HighAddress>>
    /\ profileThreads[1].stackTable.length = 3
    /\ profileThreads[1].samples.stack = <<Num(2), Num(1), Num(2)>>

----------------------------------------------------------------------------
(* convertInstrumentsProfile from the resolution of the backtraces to the
   threads of the profile *)

\* Number of samples of the runs explored.
MaxRunSamples == 2

\* Lines 840-844: importRunFromInstrumentsTrace is entered with the map of
\* the run, the array table and the sample list of the files of the run.
InitRun ==
    /\ IdleReaders
    /\ IdleArchive
    /\ IdleImport
    /\ IdleThreads
    /\ arrays \in [1..Cardinality(ArrayIndices) -> ArrayContents]
    /\ btKnown \in SUBSET {1, HighAddress}
    /\ addressToFrameMap = SymbolMap(btKnown)
    /\ \E ids \in [1..MaxRunSamples -> Ids] :
          \E threadIDs \in [1..MaxRunSamples -> ThreadIDs] :
              samples = [n \in 1..MaxRunSamples |-> Sample(n, threadIDs[n], ids[n])]
    /\ backtraceIDtoStack = <<>>
    /\ btPc = "resolve"
    /\ btIdx = 1
    /\ btResolved = <<>>
    /\ btRegistered = <<>>

\* Line 852: pushThreadsInProfile is called with the map and the samples
\* importRunFromInstrumentsTrace has returned.
PushThreadsInProfile ==
    /\ btPc = "done"
    /\ thPc = "idle"
    /\ thPc' = "group"
    /\ UNCHANGED <<profileThreads, threadIDToSamples, thKey, thSample, thread, thAllocated,
                   notThreadVars>>

NextRun ==
    \/ ResolveSample
    \/ AssignStacks
    \/ PushThreadsInProfile
    \/ GroupSamples
    \/ BeginThread
    \/ WalkSample
    \/ EndThread

SpecRun == InitRun /\ [][NextRun]_vars

\* C23: the sample table of a finished thread has one row per sample of
\* its thread id, in input order, whatever the length of the stacks.
C23_EverySampleRecorded ==
    \A k \in 1..Len(profileThreads) :
        /\ profileThreads[k].samples.length = Len(threadIDToSamples[k][2])
        /\ profileThreads[k].samples.time = TimesOf(threadIDToSamples[k][2])

\* A sample whose backtrace id names an empty array got no row.
C23_EmptyStackDropped ==
    /\ thPc = "done"
    /\ arrays[1] = <<>>
    /\ samples[1].backtraceID = 0
    /\ samples[1].backtraceStack = <<>>
    /\ samples[1].threadID = samples[2].threadID
    /\ profileThreads[1].samples.length = 1

IsPrefix(a, b) == Len(a) <= Len(b) /\ SubSeq(b, 1, Len(a)) = a

TableColumns ==
    [funcTable |-> {"name", "fileName", "isJS", "resource", "lineNumber", "columnNumber"},
     frameTable |-> {"func", "category", "address", "implementation", "line", "column"},
     stackTable |-> {"prefix", "frame", "category"},
     samples |-> {"stack", "time", "responsiveness"}]

\* The references of the tables of a thread are indexes of rows.
ReferencesValid(t) ==
    /\ \A table \in DOMAIN TableColumns :
          \A column \in TableColumns[table] : Len(t[table][column]) = t[table].length
    /\ \A f \in 1..t.frameTable.length :
          t.frameTable.func[f] \in 0..(t.funcTable.length - 1)
    /\ \A r \in 1..t.stackTable.length :
          /\ t.stackTable.frame[r].t = "num"
          /\ t.stackTable.frame[r].n \in 0..(t.frameTable.length - 1)
    /\ \A j \in 1..t.samples.length :
          /\ t.samples.stack[j].t = "num"
          /\ t.samples.stack[j].n \in 0..(t.stackTable.length - 1)

\* Every address of the stack of a sample has a row in the frame table.
AddressesHaveFrames(t) ==
    \A n \in 1..Len(samples) :
        \A i \in 1..Len(samples[n].backtraceStack) :
            \E f \in 1..t.frameTable.length :
                t.stringTable.strings[t.frameTable.address[f] + 1]
                    = toString10(samples[n].backtraceStack[i])

\* A step leaves the rows of the tables of the threads built so far as
\* they are and at most adds rows after them.
RowsOnlyAppended ==
    /\ IsPrefix(profileThreads, profileThreads')
    /\ (thPc = "walk" /\ thPc' = "walk" /\ thKey' = thKey) =>
          \A table \in DOMAIN TableColumns :
              \A column \in TableColumns[table] :
                  IsPrefix(thread.thread[table][column], thread'.thread[table][column])
    /\ (thPc = "walk" /\ thKey' # thKey) =>
          profileThreads' = Append(profileThreads, thread.thread)

\* C26: in the thread under construction and in every finished thread,
\* every func of the frame table is a row of the func table, every frame of
\* the stack table is a row of the frame table, every stack of the sample
\* table is a row of the stack table, every address of a resolved stack
\* (an address registered without a symbol included) has a frame row, the
\* length of a table is the length of each of its columns, and a step
\* only appends rows.
C26_TableReferencesValid ==
    /\ [](\A w \in ThreadsWalked : ReferencesValid(w[1]) /\ AddressesHaveFrames(w[1]))
    /\ [][RowsOnlyAppended]_vars

\* C26 witness: a finished thread with a recorded stack of two frames, one
\* of an address with a symbol and one of an address registered without.
C26_RawAndSymbolFrames ==
    /\ thPc = "done"
    /\ btRegistered = <<HighAddress>>
    /\ 1 \in btKnown
    /\ \E n \in 1..Len(samples) : samples[n].backtraceStack = <<HighAddress, 1>>
    /\ \E k \in 1..Len(profileThreads) :
          /\ profileThreads[k].stackTable.length >= 3
          /\ profileThreads[k].samples.length >= 1

----------------------------------------------------------------------------
(* One call of convertInstrumentsProfile on the packages it may be given *)

\* The most subdirectories of 'stores' in the packages explored.
MaxStores == 3

\* The most directories and files absent from the run of a package.
MaxAbsent == 2

StoreKinds ==
    {Store("none", "b1"), Store("other", "b1"), Store("time-profile", "b1"),
     Store("time-profile", "b2"), Store("time-profile", "none")}

\* The directories and files getCoreDirForRun, getRawSampleList and
\* getIntegerArrays look up by name outside the store subdirectories.
PathKeys(runNumber) ==
    {"corespace", RunKey(runNumber), "core", "stores", "uniquing", "arrayUniquer",
     "integeruniquer.index", "integeruniquer.data"}

PackageTraces ==
    {Trace(i, 1, absent, stores) :
        i \in {Coresampler, "com.apple.xray.instrument-type.other"},
        absent \in {s \in SUBSET PathKeys(1) : Cardinality(s) <= MaxAbsent},
        stores \in UNION {[1..n -> StoreKinds] : n \in 0..MaxStores}}

\* Call A is made on a package; no other call is made.
InitOneImport ==
    /\ IdleArchive
    /\ IdleBacktrace
    /\ IdleThreads
    /\ IdleReaders
    /\ fileReader = "unset"
    /\ imPc = [p \in Imports |-> IF p = "A" THEN "idle" ELSE "not called"]
    /\ \E t \in PackageTraces : imTrace = [p \in Imports |-> t]
    /\ imStore = [p \in Imports |-> 0]
    /\ imReads = [p \in Imports |-> <<>>]
    /\ imError = [p \in Imports |-> NoError]
    /\ imSamples = [p \in Imports |-> "none"]
    /\ imProfile = [p \in Imports |-> NoProfile]

SpecOneImport == InitOneImport /\ [][NextImport]_vars

\* A sequence in another order.
Reordered(seq, f) == [n \in 1..Len(seq) |-> seq[f[n]]]

\* Calls A and B are made on the same package, whose stores readEntries
\* listed to the two calls in two orders.
InitWalkOrder ==
    /\ IdleArchive
    /\ IdleBacktrace
    /\ IdleThreads
    /\ IdleReaders
    /\ \E stores \in UNION {[1..n -> StoreKinds \ {Store("none", "b1"),
                                                   Store("time-profile", "none")}] :
                                n \in 0..MaxStores} :
          \E f \in Permutations(1..Len(stores)) :
              CallsOf([p \in Imports |->
                          Trace(Coresampler, 1, {},
                                IF p = "A" THEN stores ELSE Reordered(stores, f))])

SpecWalkOrder == InitWalkOrder /\ [][NextImport]_vars

\* The call has returned or was rejected.
Finished(p) == imPc[p] \in {"done", "failed"}

\* The files read on behalf of a call, in the order of the reads.
FilesRead(p) == [n \in 1..Len(imReads[p]) |-> imReads[p][n][1]]

\* C12: two calls on the same package whose stores were listed in two
\* orders end the same way, with the same sample list and the same profile.
C12_WalkOrderIndependent ==
    Finished("A") /\ Finished("B") =>
        /\ imPc["A"] = imPc["B"]
        /\ imSamples["A"] = imSamples["B"]
        /\ imProfile["A"] = imProfile["B"]

\* C13: a call on a package of another instrument is rejected with an error
\* that carries the instrument found, after form.template was read and
\* before any other file is read, and returns no profile.
C13_UnsupportedInstrumentRejected ==
    \A p \in Imports :
        imTrace[p].instrument # Coresampler /\ imPc[p] \notin {"not called", "idle", "tree", "form"} =>
            /\ imPc[p] = "failed"
            /\ imError[p].detail = imTrace[p].instrument
            /\ imError[p].text # ""
            /\ FilesRead(p) = <<File("form.template", 0)>>
            /\ imSamples[p] = "none"
            /\ imProfile[p] = NoProfile

\* C13 witness: a package of another instrument that lacks nothing and has
\* a store with the marker was rejected.
C13_OtherInstrumentRejected ==
    /\ imPc["A"] = "failed"
    /\ imTrace["A"].instrument = "com.apple.xray.instrument-type.other"
    /\ imTrace["A"].absent = {}
    /\ \E n \in 1..Len(imTrace["A"].stores) :
          imTrace["A"].stores[n] = Store("time-profile", "b1")

\* The first key of a sequence of keys that is absent, "" when none is.
FirstAbsent(absent, keys) ==
    IF \E n \in 1..Len(keys) : keys[n] \in absent
    THEN keys[CHOOSE n \in 1..Len(keys) :
                 keys[n] \in absent /\ \A m \in 1..(n - 1) : keys[m] \notin absent]
    ELSE ""

\* The first store with the marker, 0 when there is none.
FirstMarked(stores) ==
    IF \E n \in 1..Len(stores) : stores[n].schema = "time-profile"
    THEN CHOOSE n \in 1..Len(stores) :
            /\ stores[n].schema = "time-profile"
            /\ \A m \in 1..(n - 1) : stores[m].schema # "time-profile"
    ELSE 0

\* The keys looked up before the stores are scanned, and after the samples
\* are read.
KeysToStores(t) == <<"corespace", RunKey(t.runNumber), "core", "stores">>

KeysOfUniquer == <<"uniquing", "arrayUniquer", "integeruniquer.index", "integeruniquer.data">>

\* C14: when a directory or file on the way to the run's data is absent, the
\* call is rejected with an error that names the first absent one in the
\* order of the lookups, and returns no profile.
C14_MissingSegmentNamed ==
    \A p \in Imports :
        Finished(p) /\ imTrace[p].instrument = Coresampler =>
            LET t == imTrace[p]
                before == FirstAbsent(t.absent, KeysToStores(t))
                sel == FirstMarked(t.stores)
                after == FirstAbsent(t.absent, KeysOfUniquer) IN
            /\ before # "" =>
                  /\ imPc[p] = "failed"
                  /\ imError[p] = Error("Expected key", before)
                  /\ FilesRead(p) = <<File("form.template", 0)>>
                  /\ imSamples[p] = "none"
            /\ before = "" /\ sel # 0 /\ t.stores[sel].bulkstore = "none" =>
                  /\ imPc[p] = "failed"
                  /\ imError[p] = Error("Expected key", "bulkstore")
                  /\ imSamples[p] = "none"
            /\ before = "" /\ sel # 0 /\ t.stores[sel].bulkstore # "none" /\ after # "" =>
                  /\ imPc[p] = "failed"
                  /\ imError[p] = Error("Expected key", after)
                  /\ \A n \in 1..Len(imReads[p]) :
                        imReads[p][n][1].name \notin {"integeruniquer.index", "integeruniquer.data"}
            /\ imError[p].text = "Expected key" =>
                  imError[p].detail \in t.absent \cup {"bulkstore"}
            /\ imPc[p] = "failed" => imProfile[p] = NoProfile

\* C14 witness: the samples were read, two files of the uniquer are absent,
\* and the call was rejected with the name of the one looked up first.
C14_UniquerMissing ==
    /\ imPc["A"] = "failed"
    /\ imTrace["A"].absent = {"arrayUniquer", "integeruniquer.data"}
    /\ imError["A"] = Error("Expected key", "arrayUniquer")
    /\ imSamples["A"] = "b2"

\* The places of the stores with a schema.xml among the first `last` stores.
RECURSIVE SchemasUpTo(_, _)
SchemasUpTo(stores, last) ==
    IF last = 0
    THEN <<>>
    ELSE SchemasUpTo(stores, last - 1)
         \o (IF stores[last].schema # "none" THEN <<File("schema.xml", last)>> ELSE <<>>)

\* C15: the schema.xml of every store that has one is read, in order, up to
\* the first with the marker; the bulkstore of that store is read and parsed
\* and no file of a later store is read; when no store has the marker the
\* call is rejected and no sample list is returned.
C15_FirstMarkedStoreParsed ==
    \A p \in Imports :
        Finished(p) /\ imTrace[p].instrument = Coresampler
                    /\ FirstAbsent(imTrace[p].absent, KeysToStores(imTrace[p])) = "" =>
            LET stores == imTrace[p].stores
                sel == FirstMarked(stores)
                storeReads == SelectSeq(FilesRead(p), LAMBDA f : f.store # 0) IN
            /\ sel = 0 =>
                  /\ storeReads = SchemasUpTo(stores, Len(stores))
                  /\ imPc[p] = "failed"
                  /\ imError[p] = Error("Could not find sample list", "")
                  /\ imSamples[p] = "none"
                  /\ imProfile[p] = NoProfile
            /\ sel # 0 /\ stores[sel].bulkstore # "none" =>
                  /\ storeReads = SchemasUpTo(stores, sel) \o <<File("bulkstore", sel)>>
                  /\ imSamples[p] = stores[sel].bulkstore
            /\ sel # 0 /\ stores[sel].bulkstore = "none" =>
                  /\ storeReads = SchemasUpTo(stores, sel)
                  /\ imSamples[p] = "none"

\* C15 witness: a store without schema.xml and a store without the marker
\* were passed over, and a profile was returned from the store after them.
C15_SkippedToMarkedStore ==
    /\ imPc["A"] = "done"
    /\ Len(imTrace["A"].stores) = 3
    /\ imTrace["A"].stores[1].schema = "none"
    /\ imTrace["A"].stores[2].schema = "other"
    /\ imProfile["A"] = Profile("b2")

----------------------------------------------------------------------------
(* getRawSampleList: the parse of the bulkstore *)

\* The longest run of records before the zero timestamp in the files explored.
MaxRecords == 2

\* A 48-bit number as its low 32 bits and its high 16 bits.
Uint48(lo, hi) == [lo |-> lo, hi |-> hi]

\* new BinReader(buffer): the bytes of the file and the position of the
\* next read.
BinReader(bytes) == [bytes |-> bytes, bytePos |-> 0]

\* The byte at a position of the file; past the end the read is truncated.
byteAt(reader, pos) == IF pos < Len(reader.bytes) THEN reader.bytes[pos + 1] ELSE 0

\* The little-endian number in the `width` bytes from `pos`.
RECURSIVE littleEndian(_, _, _)
littleEndian(reader, pos, width) ==
    IF width = 0
    THEN 0
    ELSE byteAt(reader, pos) + 256 * littleEndian(reader, pos + 1, width - 1)

\* The reads of BinReader: the value, the reader after the read, and
\* whether the bytes were all there.
readUint32(reader) ==
    [value |-> littleEndian(reader, reader.bytePos, 4),
     reader |-> [reader EXCEPT !.bytePos = @ + 4],
     ok |-> reader.bytePos >= 0 /\ reader.bytePos + 4 <= Len(reader.bytes)]

readUint48(reader) ==
    [value |-> Uint48(littleEndian(reader, reader.bytePos, 4),
                      littleEndian(reader, reader.bytePos + 4, 2)),
     reader |-> [reader EXCEPT !.bytePos = @ + 6],
     ok |-> reader.bytePos >= 0 /\ reader.bytePos + 6 <= Len(reader.bytes)]

seek(reader, pos) == [reader EXCEPT !.bytePos = pos]

skip(reader, count) == [reader EXCEPT !.bytePos = @ + count]

\* A mutant of readHeader: four words are ignored before headerSize.
readHeaderAfterFourWords(reader) ==
    LET w1 == readUint32(reader)
        w2 == readUint32(w1.reader)
        w3 == readUint32(w2.reader)
        w4 == readUint32(w3.reader)
        headerSize == readUint32(w4.reader)
        bytesPerEntry == readUint32(headerSize.reader)
    IN  [headerSize |-> headerSize.value,
         bytesPerEntry |-> bytesPerEntry.value,
         reader |-> seek(bytesPerEntry.reader, headerSize.value),
         ok |-> w1.ok /\ w2.ok /\ w3.ok /\ w4.ok /\ headerSize.ok /\ bytesPerEntry.ok]

\* Lines 403-410: three words are read and ignored, headerSize and
\* bytesPerEntry are read, and the reader is moved to headerSize.
readHeader(reader) ==
    LET w1 == readUint32(reader)
        w2 == readUint32(w1.reader)
        w3 == readUint32(w2.reader)
        headerSize == readUint32(w3.reader)
        bytesPerEntry == readUint32(headerSize.reader)
    IN  [headerSize |-> headerSize.value,
         bytesPerEntry |-> bytesPerEntry.value,
         reader |-> seek(bytesPerEntry.reader, headerSize.value),
         ok |-> w1.ok /\ w2.ok /\ w3.ok /\ headerSize.ok /\ bytesPerEntry.ok]

\* A mutant of skipped: the bytes of the backtrace id are not left out.
skippedToEnd(bytesPerEntry) == bytesPerEntry - 6 - 4

\* Line 421: the bytes skipped between the thread id and the backtrace id.
skipped(bytesPerEntry) == bytesPerEntry - 6 - 4 - 4

\* Lines 416-423: one turn of the loop over the records.
readRecord(reader, bytesPerEntry) ==
    LET timestamp == readUint48(reader)
        threadID == readUint32(timestamp.reader)
        backtraceID == readUint32(skip(threadID.reader, skipped(bytesPerEntry)))
    IN  IF timestamp.ok /\ timestamp.value = Uint48(0, 0)
        THEN [break |-> TRUE, ok |-> TRUE, reader |-> timestamp.reader, sample |-> Undef]
        ELSE [break |-> FALSE,
              ok |-> timestamp.ok /\ threadID.ok /\ backtraceID.ok,
              reader |-> backtraceID.reader,
              sample |-> [timestamp |-> timestamp.value, threadID |-> threadID.value,
                          backtraceID |-> backtraceID.value]]

\* The `width` little-endian bytes of a number.
RECURSIVE bytesOf(_, _)
bytesOf(v, width) ==
    IF width = 0 THEN <<>> ELSE <<v % 256>> \o bytesOf(v \div 256, width - 1)

\* `count` bytes the parser has no use for.
Filler(count) == [n \in 1..count |-> 85]

\* The bytes of a record of `bytesPerEntry` bytes.
RecordBytes(r, bytesPerEntry) ==
    bytesOf(r.timestamp.lo, 4) \o bytesOf(r.timestamp.hi, 2) \o bytesOf(r.threadID, 4)
        \o Filler(bytesPerEntry - 14) \o bytesOf(r.backtraceID, 4)

RECURSIVE AllRecordBytes(_, _)
AllRecordBytes(records, bytesPerEntry) ==
    IF records = <<>>
    THEN <<>>
    ELSE RecordBytes(Head(records), bytesPerEntry)
         \o AllRecordBytes(Tail(records), bytesPerEntry)

\* A bulkstore file: three words, the header size, the stride, the rest of
\* the header, the records, a zero timestamp, and what follows it.
BulkstoreFile(b) ==
    bytesOf(7, 4) \o bytesOf(8, 4) \o bytesOf(9, 4)
        \o bytesOf(b.headerSize, 4) \o bytesOf(b.bytesPerEntry, 4)
        \o Filler(b.headerSize - 20)
        \o AllRecordBytes(b.records, b.bytesPerEntry)
        \o bytesOf(0, 6)
        \o AllRecordBytes(b.trailing, b.bytesPerEntry)

\* The records of the files explored; a timestamp of 2^32 has its low 32
\* bits zero.
RecordValues ==
    {[timestamp |-> ts, threadID |-> tid, backtraceID |-> id] :
        ts \in {Uint48(1, 0), Uint48(0, 1)}, tid \in {1, 258}, id \in {0, 3}}

Bulkstores ==
    {[headerSize |-> h, bytesPerEntry |-> s, records |-> rs, trailing |-> tr] :
        h \in {20, 24}, s \in {14, 16},
        rs \in UNION {[1..n -> RecordValues] : n \in 0..MaxRecords},
        tr \in {<<>>, <<[timestamp |-> Uint48(1, 0), threadID |-> 1, backtraceID |-> 3]>>}}

\* Line 400: the bulkstore of the store is read and a BinReader is made of it.
InitBulkstore ==
    /\ IdleArchive
    /\ IdleImport
    /\ IdleBacktrace
    /\ IdleThreads
    /\ IdlePlist
    /\ IdleFile
    /\ IdleOthers
    /\ bsRecords \in Bulkstores
    /\ bulkstore = BinReader(BulkstoreFile(bsRecords))
    /\ bsHeaderSize = 0
    /\ bsBytesPerEntry = 0
    /\ bsSamples = <<>>
    /\ bsPc = "header"

\* Lines 403-412
ReadBulkstoreHeader ==
    /\ bsPc = "header"
    /\ LET h == readHeader(bulkstore) IN
        /\ bulkstore' = h.reader
        /\ bsHeaderSize' = h.headerSize
        /\ bsBytesPerEntry' = h.bytesPerEntry
        /\ bsPc' = IF h.ok THEN "records" ELSE "error"
    /\ UNCHANGED <<bsSamples, bsRecords, notBulkstoreVars>>

\* Lines 413-425: one turn of the loop, or the break and the return.
ReadBulkstoreRecord ==
    /\ bsPc = "records"
    /\ Len(bsSamples) <= MaxRecords + 1
    /\ LET r == readRecord(bulkstore, bsBytesPerEntry) IN
        /\ bulkstore' = r.reader
        /\ bsSamples' = IF r.break \/ ~r.ok THEN bsSamples ELSE Append(bsSamples, r.sample)
        /\ bsPc' = IF r.break THEN "returned" ELSE IF r.ok THEN "records" ELSE "error"
    /\ UNCHANGED <<bsHeaderSize, bsBytesPerEntry, bsRecords, notBulkstoreVars>>

NextBulkstore == ReadBulkstoreHeader \/ ReadBulkstoreRecord

SpecBulkstore == InitBulkstore /\ [][NextBulkstore]_vars

\* The number in the four bytes at an offset of a file, low byte first.
WordAt(bytes, offset) ==
    bytes[offset + 1] + 256 * bytes[offset + 2] + 65536 * bytes[offset + 3]
        + 16777216 * bytes[offset + 4]

\* C11: of a bulkstore with n records before a zero timestamp the samples
\* returned are the n records in file order: the timestamp of sample i is
\* the 48-bit number at headerSize + i * bytesPerEntry, its thread id the
\* word after it, its backtrace id the last word of the record; nothing
\* after the zero timestamp is a sample.
C11_SamplesAreTheRecords ==
    /\ bsPc # "error"
    /\ Len(bsSamples) <= Len(bsRecords.records)
    /\ \A i \in 1..Len(bsSamples) :
          LET at == bsRecords.headerSize + (i - 1) * bsRecords.bytesPerEntry IN
          /\ bsSamples[i] = bsRecords.records[i]
          /\ bsSamples[i].timestamp.lo = WordAt(bulkstore.bytes, at)
          /\ bsSamples[i].timestamp.hi = bulkstore.bytes[at + 5] + 256 * bulkstore.bytes[at + 6]
          /\ bsSamples[i].threadID = WordAt(bulkstore.bytes, at + 6)
          /\ bsSamples[i].backtraceID =
                WordAt(bulkstore.bytes, at + bsRecords.bytesPerEntry - 4)
    /\ bsPc = "returned" => bsSamples = bsRecords.records

\* C11 witness: two records of 16 bytes were returned, the second with a
\* timestamp of 2^32, and the record after the zero timestamp was not.
C11_TwoRecordsThenZero ==
    /\ bsPc = "returned"
    /\ Len(bsSamples) = 2
    /\ bsBytesPerEntry = 16
    /\ bsSamples[2].timestamp = Uint48(0, 1)
    /\ bsSamples[1].threadID = 258
    /\ bsRecords.trailing # <<>>

\* C20 as stated: headerSize is the word at byte 16 of the file and
\* bytesPerEntry the word at byte 20.
C20_HeaderAfterFourWords ==
    bsPc \in {"records", "returned"} =>
        /\ bsHeaderSize = WordAt(bulkstore.bytes, 16)
        /\ bsBytesPerEntry = WordAt(bulkstore.bytes, 20)

\* C20, amended: headerSize is the word after three ignored words, at byte
\* 12 of the file, bytesPerEntry is the word at byte 16, and the first
\* record is read at the offset headerSize.
C20_HeaderAfterThreeWords ==
    /\ bsPc \in {"records", "returned"} =>
          /\ bsHeaderSize = WordAt(bulkstore.bytes, 12)
          /\ bsBytesPerEntry = WordAt(bulkstore.bytes, 16)
    /\ bsPc = "records" /\ bsSamples = <<>> => bulkstore.bytePos = bsHeaderSize
    /\ bsPc = "returned" =>
          bulkstore.bytePos = bsHeaderSize + Len(bsSamples) * bsBytesPerEntry + 6

\* C20 witness: the header was read of a file whose header is longer than
\* the five words, and the first record is about to be read.
C20_HeaderRead ==
    /\ bsPc = "records"
    /\ bsSamples = <<>>
    /\ bsHeaderSize = 24
    /\ bsBytesPerEntry = 14
    /\ bsRecords.records # <<>>

----------------------------------------------------------------------------
(* getIntegerArrays: the parse of the array uniquer *)

\* The most pairs of integeruniquer.index and the longest array of
\* integeruniquer.data in the files explored.
MaxPairs == 3

MaxArrayLength == 2

\* A 64-bit number as its low and its high 32 bits.
Uint64(lo, hi) == [lo |-> lo, hi |-> hi]

\* BinReader.hasMore
hasMore(reader) == reader.bytePos < Len(reader.bytes)

\* BinReader.readUint64
readUint64(reader) ==
    [value |-> Uint64(littleEndian(reader, reader.bytePos, 4),
                      littleEndian(reader, reader.bytePos + 4, 4)),
     reader |-> [reader EXCEPT !.bytePos = @ + 8],
     ok |-> reader.bytePos >= 0 /\ reader.bytePos + 8 <= Len(reader.bytes)]

\* A mutant of byteOffset: the count of megabytes is left out.
byteOffsetLowOnly(low, high) == low

\* Lines 366-367: low + high * (1024 * 1024)
byteOffset(low, high) == low + high * (1024 * 1024)

\* Lines 378-380: while (length--) array.push(datareader.readUint64())
RECURSIVE readArray(_, _, _)
readArray(reader, length, array) ==
    IF length = 0
    THEN [array |-> array, reader |-> reader, ok |-> TRUE]
    ELSE LET v == readUint64(reader) IN
         IF ~v.ok
         THEN [array |-> array, reader |-> v.reader, ok |-> FALSE]
         ELSE readArray(v.reader, length - 1, Append(array, v.value))

\* Lines 365-381: one turn of the loop over the pairs of the index.
readPair(indexreader, datareader, arrs) ==
    LET low == readUint32(indexreader)
        high == readUint32(low.reader)
        offset == byteOffset(low.value, high.value)
        length == readUint32(seek(datareader, offset))
        read == readArray(length.reader, length.value, <<>>)
    IN  IF ~(low.ok /\ high.ok)
        THEN [index |-> high.reader, data |-> datareader, arrays |-> arrs, ok |-> FALSE]
        ELSE IF offset = 0
        THEN [index |-> high.reader, data |-> datareader, arrays |-> arrs, ok |-> TRUE]
        ELSE IF ~length.ok
        THEN [index |-> high.reader, data |-> length.reader, arrays |-> arrs, ok |-> FALSE]
        ELSE [index |-> high.reader, data |-> read.reader,
              arrays |-> IF read.ok THEN Append(arrs, read.array) ELSE arrs,
              ok |-> read.ok]

\* What a pair of the index is written from: the pair of offset zero, the
\* pair of an array of the data file, or a pair whose count of megabytes
\* points past the end of the data file.
ZeroPair == [kind |-> "zero", array |-> <<>>]
ArrayPair(array) == [kind |-> "array", array |-> array]
FarPair == [kind |-> "far", array |-> <<>>]

UniquerValues == {Uint64(1, 0), Uint64(258, 1)}

UniquerPairs ==
    {ZeroPair, FarPair}
        \cup {ArrayPair(a) : a \in UNION {[1..n -> UniquerValues] : n \in 0..MaxArrayLength}}

RECURSIVE valueBytes(_)
valueBytes(array) ==
    IF array = <<>>
    THEN <<>>
    ELSE bytesOf(Head(array).lo, 4) \o bytesOf(Head(array).hi, 4) \o valueBytes(Tail(array))

\* The bytes of an array in the data file: its count, then its values.
arrayBytes(pair) ==
    IF pair.kind = "array"
    THEN bytesOf(Len(pair.array), 4) \o valueBytes(pair.array)
    ELSE <<>>

\* The data file: a header of 32 bytes, then the arrays, the array of the
\* last pair first.
RECURSIVE dataBytesFrom(_, _)
dataBytesFrom(written, n) ==
    IF n = 0 THEN <<>> ELSE arrayBytes(written[n]) \o dataBytesFrom(written, n - 1)

DataFile(written) == Filler(32) \o dataBytesFrom(written, Len(written))

\* Where the array of pair n starts in the data file.
offsetOf(written, n) == 32 + Len(dataBytesFrom(written, Len(written))) - Len(dataBytesFrom(written, n))

\* The index file: a header of 32 bytes, then the pairs (low, high).
RECURSIVE indexBytesFrom(_, _)
indexBytesFrom(written, n) ==
    IF n > Len(written)
    THEN <<>>
    ELSE (CASE written[n].kind = "zero" -> bytesOf(0, 4) \o bytesOf(0, 4)
            [] written[n].kind = "far" -> bytesOf(32, 4) \o bytesOf(1, 4)
            [] OTHER -> bytesOf(offsetOf(written, n), 4) \o bytesOf(0, 4))
         \o indexBytesFrom(written, n + 1)

IndexFile(written) == Filler(32) \o indexBytesFrom(written, 1)

\* Lines 353-361: the two files are read and the header of the index is
\* passed over.
InitUniquer ==
    /\ IdleArchive
    /\ IdleImport
    /\ IdleBacktrace
    /\ IdleThreads
    /\ IdleBulkstore
    /\ IdlePlist
    /\ IdleFile
    /\ IdleTemplate
    /\ IdleUrl
    /\ uqWritten \in UNION {[1..n -> UniquerPairs] : n \in 0..MaxPairs}
    /\ uqIndex = seek(BinReader(IndexFile(uqWritten)), 32)
    /\ uqData = BinReader(DataFile(uqWritten))
    /\ uqArrays = <<>>
    /\ uqPc = "pairs"

\* Lines 365-382: one turn of the loop over the pairs.
ReadIndexPair ==
    /\ uqPc = "pairs"
    /\ hasMore(uqIndex)
    /\ LET r == readPair(uqIndex, uqData, uqArrays) IN
        /\ uqIndex' = r.index
        /\ uqData' = r.data
        /\ uqArrays' = r.arrays
        /\ uqPc' = IF r.ok THEN "pairs" ELSE "error"
    /\ UNCHANGED <<uqWritten, notUniquerVars>>

\* Line 385: the index has no more bytes and the arrays are returned.
ReturnArrays ==
    /\ uqPc = "pairs"
    /\ ~hasMore(uqIndex)
    /\ uqPc' = "done"
    /\ UNCHANGED <<uqIndex, uqData, uqArrays, uqWritten, notUniquerVars>>

NextUniquer == ReadIndexPair \/ ReturnArrays

SpecUniquer == InitUniquer /\ [][NextUniquer]_vars

\* The arrays of the pairs an index was written from, in the order of the
\* pairs, the pairs of offset zero left out.
RECURSIVE ArraysWritten(_)
ArraysWritten(written) ==
    IF written = <<>>
    THEN <<>>
    ELSE (IF Head(written).kind = "array" THEN <<Head(written).array>> ELSE <<>>)
         \o ArraysWritten(Tail(written))

\* C27: the arrays returned are those of the pairs of the index whose
\* offset low + high * 1,048,576 is not zero, in the order of the pairs; a
\* pair of offset zero adds no array and takes no place; each array holds
\* the values that follow its count in the data file, as many as the count
\* says and in file order.
C27_OneArrayPerNonZeroOffset ==
    /\ uqPc \in {"pairs", "done"} =>
          /\ (uqIndex.bytePos - 32) % 8 = 0
          /\ uqArrays = ArraysWritten(SubSeq(uqWritten, 1, (uqIndex.bytePos - 32) \div 8))
    /\ uqPc = "done" =>
          /\ uqIndex.bytePos = 32 + 8 * Len(uqWritten)
          /\ \A n \in 1..Len(uqWritten) : uqWritten[n].kind # "far"

\* C27 witness: an index of a pair of offset zero, a pair of an array of two
\* values and a pair of an empty array gave two arrays.
C27_ZeroPairTakesNoPlace ==
    /\ uqPc = "done"
    /\ uqWritten = <<ZeroPair, ArrayPair(<<Uint64(258, 1), Uint64(1, 0)>>), ArrayPair(<<>>)>>
    /\ uqArrays = <<<<Uint64(258, 1), Uint64(1, 0)>>, <<>>>>

----------------------------------------------------------------------------
(* readFormTemplateFile: the runs of the archive *)

\* The most process ids of the symbolsByPid of a run in the archives explored.
MaxPids == 2

\* A symbol of the archive: its names and the keys of its addressToLine.
Symbol(sourcePath, symbolName, addresses) ==
    [sourcePath |-> sourcePath, symbolName |-> symbolName, addresses |-> addresses]

\* Lines 539-547: the frame made for an address of a symbol.
frameOfSymbol(symbol, address) ==
    LET name == IF symbol.symbolName # <<>>
                THEN symbol.symbolName
                ELSE <<"0", "x">> \o zeroPad(toString16(address), 16)
    IN  [key |-> Chars(symbol.sourcePath \o <<":">> \o name),
         name |-> Chars(name),
         file |-> IF symbol.sourcePath # <<>> THEN Chars(symbol.sourcePath) ELSE Undef]

\* Lines 537-549: the loop over the keys of addressToLine; the frame of an
\* address is that of the first symbol that has it.
RECURSIVE insertAddresses(_, _, _)
insertAddresses(map, symbol, addresses) ==
    IF addresses = <<>>
    THEN map
    ELSE insertAddresses(
             IF MapHas(map, Head(addresses))
             THEN map
             ELSE MapPut(map, Head(addresses), frameOfSymbol(symbol, Head(addresses))),
             symbol, Tail(addresses))

\* Lines 534-550: the loop over the symbols of a process id; a null symbol
\* is passed over.
RECURSIVE insertSymbols(_, _)
insertSymbols(map, symbols) ==
    IF symbols = <<>>
    THEN map
    ELSE insertSymbols(
             IF Head(symbols) = Null
             THEN map
             ELSE insertAddresses(map, Head(symbols), Head(symbols).addresses),
             Tail(symbols))

\* Lines 532-558: the loop over symbolsByPid.values(): the symbols of every
\* process id are entered in the one map of the run, and an entry of the
\* run is pushed in every turn. `pushed` counts the turns.
RECURSIVE readPids(_, _, _)
readPids(map, pushed, symbolsByPid) ==
    IF symbolsByPid = <<>>
    THEN [map |-> map, pushed |-> pushed]
    ELSE readPids(insertSymbols(map, Head(symbolsByPid)[2]), pushed + 1, Tail(symbolsByPid))

\* The entries pushed for a run: each holds the map of the run, which is
\* one object and ends with the symbols of every process id.
runEntries(runNumber, symbolsByPid) ==
    LET r == readPids(<<>>, 0, symbolsByPid)
    IN  [n \in 1..r.pushed |-> [number |-> runNumber, addressToFrameMap |-> r.map]]

\* The symbols of the archives explored.
SymbolLists ==
    {<<>>,
     <<Symbol(<<"/", "a", ".", "c">>, <<"f">>, <<1>>)>>,
     <<Null, Symbol(<<>>, <<>>, <<2, 1>>)>>}

\* The Maps symbolsByPid explored: their entries <<pid, symbols>>.
SymbolsByPid ==
    UNION {{[k \in 1..n |-> <<100 + k, lists[k]>>] : lists \in [1..n -> SymbolLists]} :
              n \in 0..MaxPids}

\* allRunData of the archives explored: the run numbers and, for each run
\* number of runData, its symbolsByPid.
TemplateArchives ==
    {[runNumbers |-> numbers, runData |-> [k \in 1..Len(data) |-> <<k, data[k]>>]] :
        numbers \in {<<1>>, <<1, 2>>, <<2, 1>>},
        data \in [1..2 -> SymbolsByPid] \cup [1..1 -> SymbolsByPid]}

\* Lines 499-519: the archive is read and runs is empty.
InitTemplate ==
    /\ IdleArchive
    /\ IdleImport
    /\ IdleBacktrace
    /\ IdleThreads
    /\ IdleBulkstore
    /\ IdlePlist
    /\ IdleFile
    /\ IdleUniquer
    /\ IdleUrl
    /\ ftArchive \in TemplateArchives
    /\ ftRuns = <<>>
    /\ ftRun = 1
    /\ ftPc = "runs"

\* Lines 520-559: one turn of the loop over allRunData.runNumbers.
ReadRun ==
    /\ ftPc = "runs"
    /\ ftRun <= Len(ftArchive.runNumbers)
    /\ LET runNumber == ftArchive.runNumbers[ftRun] IN
        IF MapHas(ftArchive.runData, runNumber)
        THEN /\ ftRuns' = ftRuns \o runEntries(runNumber, MapGet(ftArchive.runData, runNumber))
             /\ ftRun' = ftRun + 1
             /\ ftPc' = "runs"
        ELSE /\ ftPc' = "error"
             /\ UNCHANGED <<ftRuns, ftRun>>
    /\ UNCHANGED <<ftArchive, notTemplateVars>>

\* Lines 561-566: runs is returned.
ReturnRuns ==
    /\ ftPc = "runs"
    /\ ftRun > Len(ftArchive.runNumbers)
    /\ ftPc' = "done"
    /\ UNCHANGED <<ftArchive, ftRuns, ftRun, notTemplateVars>>

NextTemplate == ReadRun \/ ReturnRuns

SpecTemplate == InitTemplate /\ [][NextTemplate]_vars

\* C29: runs has one entry per run number of the run list, in the order of
\* the list, each with the map of the symbols of that run, whatever the
\* number of process ids of the run; so runs[0] is there and is the first
\* run of the list.
C29_OneEntryPerRun ==
    ftPc = "done" =>
        /\ Len(ftRuns) = Len(ftArchive.runNumbers)
        /\ \A i \in 1..Len(ftRuns) :
              /\ ftRuns[i].number = ftArchive.runNumbers[i]
              /\ ftRuns[i].addressToFrameMap =
                    readPids(<<>>, 0, MapGet(ftArchive.runData, ftArchive.runNumbers[i])).map
        /\ Len(ftRuns) >= 1
        /\ ftRuns[1].number = ftArchive.runNumbers[1]

\* The first run has no process id and the second has two: runs holds two
\* entries of the second run and none of the first.
C29_NoEntryForFirstRun ==
    /\ ftPc = "done"
    /\ ftArchive.runNumbers = <<1, 2>>
    /\ MapGet(ftArchive.runData, 1) = <<>>
    /\ Len(ftRuns) = 2
    /\ ftRuns[1].number = 2
    /\ ftRuns[2].number = 2

----------------------------------------------------------------------------
(* parseBinaryPlist: the check of the header *)

\* The most bytes that follow the eight of the header in the buffers explored.
MaxPayload == 2

\* 'bplist00'.charCodeAt(i) for i = 0..7
bplist00 == <<98, 112, 108, 105, 115, 116, 48, 48>>

\* A mutant of headerMismatch: a byte past the end of the buffer passes.
headerMismatchInRange(bytes, i) ==
    i < Len(bytes) /\ bytes[i + 1] # bplist00[i + 1]

\* Line 35: bytes[i] !== text.charCodeAt(i); bytes[i] is undefined past the
\* end of the buffer.
headerMismatch(bytes, i) ==
    i >= Len(bytes) \/ bytes[i + 1] # bplist00[i + 1]

\* Lines 34-38: the loop from i on; TRUE when it ends without a throw.
RECURSIVE headerMatches(_, _)
headerMatches(bytes, i) ==
    IF i >= 8
    THEN TRUE
    ELSE IF headerMismatch(bytes, i) THEN FALSE ELSE headerMatches(bytes, i + 1)

\* parseBinaryPlist(bytes): the decoder is made and run, or the error is thrown.
parseBinaryPlist(bytes) ==
    IF headerMatches(bytes, 0) THEN "decoder" ELSE "error"

\* The buffers explored: the header, the header with one byte changed, the
\* header cut short; and the bytes after it.
Headers ==
    {bplist00}
        \cup {[bplist00 EXCEPT ![k] = b] : k \in 1..8, b \in {0, 49}}

Buffers ==
    {SubSeq(bplist00, 1, n) : n \in 0..7}
        \cup {h \o payload : h \in Headers,
                             payload \in UNION {[1..n -> {0, 48}] : n \in 0..MaxPayload}}

InitPlist ==
    /\ IdleArchive
    /\ IdleImport
    /\ IdleBacktrace
    /\ IdleThreads
    /\ IdleBulkstore
    /\ IdleFile
    /\ IdleOthers
    /\ plBytes \in Buffers
    /\ plPc = "buffer"

\* Line 234: readInstrumentsArchive calls parseBinaryPlist on the buffer.
ParseBinaryPlist ==
    /\ plPc = "buffer"
    /\ plPc' = parseBinaryPlist(plBytes)
    /\ UNCHANGED <<plBytes, notPlistVars>>

NextPlist == ParseBinaryPlist

SpecPlist == InitPlist /\ [][NextPlist]_vars

\* C16: a buffer reaches the decoder only if it is at least eight bytes long
\* and begins with the bytes of 'bplist00'; every other buffer, a shorter
\* one included, ends in the error with no decoder made.
C16_OnlyBplistDecoded ==
    plPc # "buffer" =>
        /\ plPc \in {"decoder", "error"}
        /\ plPc = "decoder" <=>
              /\ Len(plBytes) >= 8
              /\ SubSeq(plBytes, 1, 8) = <<98, 112, 108, 105, 115, 116, 48, 48>>

\* C16 witness: a buffer of seven bytes that is the header cut short was
\* rejected.
C16_ShortBufferRejected ==
    /\ plPc = "error"
    /\ Len(plBytes) = 7
    /\ plBytes = SubSeq(bplist00, 1, 7)

----------------------------------------------------------------------------
(* isInstrumentsProfile *)

\* The most pieces a file name of the names explored is put together from.
MaxPieces == 4

\* An object with a property `name`.
FileObject(name) == [t |-> "object", name |-> name]

\* cs.split('.'): the pieces between the dots; `piece` is the one being read.
RECURSIVE splitFrom(_, _, _)
splitFrom(cs, piece, pieces) ==
    IF cs = <<>>
    THEN Append(pieces, piece)
    ELSE IF Head(cs) = "."
    THEN splitFrom(Tail(cs), <<>>, Append(pieces, piece))
    ELSE splitFrom(Tail(cs), Append(piece, Head(cs)), pieces)

split(cs) == splitFrom(cs, <<>>, <<>>)

\* A mutant of withoutBaseName: a lone extension is let through.
neverWithoutBaseName(fileMetaData) == FALSE

\* Line 610: an empty piece before the only dot.
withoutBaseName(fileMetaData) ==
    fileMetaData[1] = <<>> /\ Len(fileMetaData) = 2

\* Lines 600-614
isInstrumentsProfile(file) ==
    LET fileName ==
            IF file.t = "object" /\ file.name.t = "str" THEN file.name.s ELSE <<>>
        fileMetaData == split(fileName)
    IN  IF Len(fileMetaData) = 1 \/ withoutBaseName(fileMetaData)
        THEN FALSE
        ELSE fileMetaData[Len(fileMetaData)] = <<"t", "r", "a", "c", "e">>

\* File names put together from at most `n` pieces.
RECURSIVE NamesOf(_)
NamesOf(n) ==
    IF n = 0
    THEN {<<>>}
    ELSE NamesOf(n - 1)
         \cup {name \o piece :
                 name \in NamesOf(n - 1),
                 piece \in {<<".">>, <<"a">>, <<"t", "r", "a", "c", "e">>,
                            <<"T", "R", "A", "C", "E">>}}

\* The values isInstrumentsProfile is called with.
FileValues ==
    {Null, Undef, Num(0), Chars(<<"a", ".", "t", "r", "a", "c", "e">>),
     FileObject(Undef), FileObject(Num(1)), FileObject(Null)}
        \cup {FileObject(Chars(name)) : name \in NamesOf(MaxPieces)}

InitFile ==
    /\ IdleArchive
    /\ IdleImport
    /\ IdleBacktrace
    /\ IdleThreads
    /\ IdleBulkstore
    /\ IdlePlist
    /\ IdleOthers
    /\ ipFile \in FileValues
    /\ ipPc = "called"
    /\ ipResult = FALSE

IsInstrumentsProfile ==
    /\ ipPc = "called"
    /\ ipResult' = isInstrumentsProfile(ipFile)
    /\ ipPc' = "returned"
    /\ UNCHANGED <<ipFile, notFileVars>>

NextFile == IsInstrumentsProfile

SpecFile == InitFile /\ [][NextFile]_vars

\* C19: a value is accepted exactly when it is an object whose name is a
\* string that ends in .trace with at least one character before it; a
\* name without a dot, the name .trace, a name with another last extension
\* and a value without a string name are rejected.
C19_TraceExtensionAccepted ==
    ipPc = "returned" =>
        (ipResult <=>
            /\ ipFile.t = "object"
            /\ ipFile.name.t = "str"
            /\ Len(ipFile.name.s) >= 7
            /\ SubSeq(ipFile.name.s, Len(ipFile.name.s) - 5, Len(ipFile.name.s))
                  = <<".", "t", "r", "a", "c", "e">>)

\* C19 witness: the name .trace was rejected.
C19_LoneExtensionRejected ==
    /\ ipPc = "returned"
    /\ ipFile = FileObject(Chars(<<".", "t", "r", "a", "c", "e">>))
    /\ ~ipResult

----------------------------------------------------------------------------
(* The URL of the application: urlFromState and stateFromLocation, for the
   data source and the local track order *)

\* The most process ids of localTrackOrderByPid in the states explored.
MaxTrackPids == 2

\* A UrlState: its data source, its profilesToCompare and the entries
\* <<pid, trackOrder>> of profileSpecific.localTrackOrderByPid.
UrlState(dataSource, profilesToCompare, localTrackOrderByPid) ==
    [dataSource |-> dataSource, profilesToCompare |-> profilesToCompare,
     localTrackOrderByPid |-> localTrackOrderByPid]

\* trackOrder.join('-')
RECURSIVE joinNumbers(_, _)
joinNumbers(numbers, separator) ==
    IF numbers = <<>>
    THEN <<>>
    ELSE IF Len(numbers) = 1
    THEN toString10(Head(numbers))
    ELSE toString10(Head(numbers)) \o <<separator>> \o joinNumbers(Tail(numbers), separator)

\* Lines 173-179: the value of query.localTrackOrderByPid after the loop
\* over the entries, each turn adding to what the property held.
RECURSIVE appendTrackOrders(_, _)
appendTrackOrders(value, entries) ==
    IF entries = <<>>
    THEN value
    ELSE LET pid == Head(entries)[1]
             trackOrder == Head(entries)[2]
         IN  appendTrackOrders(
                 IF Len(trackOrder) > 0
                 THEN Chars(TemplateString(value) \o toString10(pid) \o <<"-">>
                            \o joinNumbers(trackOrder, "-") \o <<"~">>)
                 ELSE value,
                 Tail(entries))

\* Lines 172-180: what query.localTrackOrderByPid is left as. The loop
\* writes to the property of the query; line 180 then assigns the constant
\* localTrackOrderByPid, which is '', or undefined in its place.
localTrackOrderQuery(urlState) ==
    LET localTrackOrderByPid == <<>>
        appended == appendTrackOrders(Undef, urlState.localTrackOrderByPid)
    IN  IF localTrackOrderByPid # <<>> THEN Chars(localTrackOrderByPid) ELSE Undef

\* Lines 111-224: urlStateToUrlObject, for the path and this parameter.
urlStateToUrlObject(urlState) ==
    IF urlState.dataSource = "none"
    THEN [pathParts |-> <<>>, query |-> [localTrackOrderByPid |-> Undef]]
    ELSE IF urlState.dataSource = "compare" /\ urlState.profilesToCompare = Null
    THEN [pathParts |-> <<"compare">>, query |-> [localTrackOrderByPid |-> Undef]]
    ELSE [pathParts |-> <<urlState.dataSource, "calltree">>,
          query |-> [localTrackOrderByPid |-> localTrackOrderQuery(urlState)]]

\* queryString.stringify: the parameters whose value is not undefined, as
\* <<name, value>>.
stringify(query) ==
    IF query.localTrackOrderByPid = Undef
    THEN <<>>
    ELSE << <<"localTrackOrderByPid", query.localTrackOrderByPid.s>> >>

\* queryString.parse
parse(search) ==
    [localTrackOrderByPid |->
        IF \E n \in 1..Len(search) : search[n][1] = "localTrackOrderByPid"
        THEN Chars(search[CHOOSE n \in 1..Len(search) :
                              search[n][1] = "localTrackOrderByPid"][2])
        ELSE Undef]

\* Lines 226-238: urlFromState; the location as its path parts and the
\* parameters of its search string.
urlFromState(urlState) ==
    LET o == urlStateToUrlObject(urlState)
    IN  IF urlState.dataSource = "none"
        THEN [pathParts |-> <<>>, search |-> <<>>]
        ELSE [pathParts |-> o.pathParts, search |-> stringify(o.query)]

\* string.split(separator)
RECURSIVE splitOnFrom(_, _, _, _)
splitOnFrom(cs, separator, piece, pieces) ==
    IF cs = <<>>
    THEN Append(pieces, piece)
    ELSE IF Head(cs) = separator
    THEN splitOnFrom(Tail(cs), separator, <<>>, Append(pieces, piece))
    ELSE splitOnFrom(Tail(cs), separator, Append(piece, Head(cs)), pieces)

splitOn(cs, separator) == splitOnFrom(cs, separator, <<>>, <<>>)

\* Number(string) for a string without spaces, sign or point: 0 for the
\* empty string, NaN for a string with a character that is no digit.
RECURSIVE DecimalValue(_)
DecimalValue(cs) ==
    IF cs = <<>>
    THEN 0
    ELSE 10 * DecimalValue(SubSeq(cs, 1, Len(cs) - 1))
         + (CHOOSE d \in 0..9 : HexDigits[d + 1] = cs[Len(cs)])

Number(cs) ==
    IF \A n \in 1..Len(cs) : \E d \in 0..9 : HexDigits[d + 1] = cs[n]
    THEN Num(DecimalValue(cs))
    ELSE NaN

\* Lines 377-388: the loop over the parts of the text between the '~'.
RECURSIVE parseTrackOrderParts(_, _)
parseTrackOrderParts(map, parts) ==
    IF parts = <<>>
    THEN map
    ELSE LET strings == splitOn(Head(parts), "-")
             pidString == Head(strings)
             indexStrings == Tail(strings)
             pid == Number(pidString)
             indexes == [n \in 1..Len(indexStrings) |-> Number(indexStrings[n])]
         IN  parseTrackOrderParts(
                 IF Len(indexStrings) <= 1
                 THEN map
                 ELSE IF pid # NaN /\ \A n \in 1..Len(indexes) : indexes[n] # NaN
                 THEN MapPut(map, pid.n, [n \in 1..Len(indexes) |-> indexes[n].n])
                 ELSE map,
                 Tail(parts))

\* Lines 374-392
parseLocalTrackOrder(rawText) == parseTrackOrderParts(<<>>, splitOn(rawText, "~"))

\* Lines 240-255, for the path parts of a location of the application.
getDataSourceFromPathParts(pathParts) ==
    IF pathParts = <<>> THEN "none" ELSE pathParts[1]

\* Lines 269-342: stateFromLocation, for the data source and the local
\* track order.
stateFromLocation(location) ==
    LET query == parse(location.search)
    IN  [dataSource |-> getDataSourceFromPathParts(location.pathParts),
         localTrackOrderByPid |->
            IF query.localTrackOrderByPid # Undef /\ query.localTrackOrderByPid.s # <<>>
            THEN parseLocalTrackOrder(query.localTrackOrderByPid.s)
            ELSE <<>>]

\* The track orders and the states explored.
TrackOrders == {<<>>, <<0>>, <<0, 1>>, <<1, 0>>, <<2, 0, 1>>}

TrackOrderMaps ==
    UNION {{[k \in 1..n |-> <<120 + k, orders[k]>>] : orders \in [1..n -> TrackOrders]} :
              n \in 0..MaxTrackPids}

UrlStates ==
    {UrlState(dataSource, profilesToCompare, m) :
        dataSource \in {"none", "public", "from-file", "compare"},
        profilesToCompare \in {Null, Arr(<<>>)},
        m \in TrackOrderMaps}

\* Locations as a user may give them: 121-0-1~122-1, 121-1-0~122-2-0-1,
\* x-0-1, 121-0, 121--2 and the empty text.
TrackOrderTexts ==
    {<<"1", "2", "1", "-", "0", "-", "1", "~", "1", "2", "2", "-", "1">>,
     <<"1", "2", "1", "-", "1", "-", "0", "~", "1", "2", "2", "-", "2", "-", "0", "-", "1">>,
     <<"x", "-", "0", "-", "1">>,
     <<"1", "2", "1", "-", "0">>,
     <<"1", "2", "1", "-", "-", "2">>,
     <<>>}

Locations ==
    {[pathParts |-> <<"public", "calltree">>,
      search |-> << <<"localTrackOrderByPid", text>> >>] : text \in TrackOrderTexts}
        \cup {[pathParts |-> <<>>, search |-> <<>>]}

\* A state of the application whose URL is to be made, or a location the
\* application is opened at.
InitUrl ==
    /\ IdleArchive
    /\ IdleImport
    /\ IdleBacktrace
    /\ IdleThreads
    /\ IdleBulkstore
    /\ IdlePlist
    /\ IdleFile
    /\ IdleUniquer
    /\ IdleTemplate
    /\ urParsed = Undef
    /\ \/ /\ urState \in UrlStates
          /\ urUrl = Undef
          /\ urPc = "state"
       \/ /\ urState = Undef
          /\ urUrl \in Locations
          /\ urPc = "location"

UrlFromState ==
    /\ urPc = "state"
    /\ urUrl' = urlFromState(urState)
    /\ urPc' = "location"
    /\ UNCHANGED <<urState, urParsed, notUrlVars>>

StateFromLocation ==
    /\ urPc = "location"
    /\ urParsed' = stateFromLocation(urUrl)
    /\ urPc' = "parsed"
    /\ UNCHANGED <<urState, urUrl, notUrlVars>>

NextUrl == UrlFromState \/ StateFromLocation

SpecUrl == InitUrl /\ [][NextUrl]_vars

\* C30: for a state with a data source other than 'none' whose
\* localTrackOrderByPid gives some pid two or more track indexes, the state
\* read from the URL made of it has the same localTrackOrderByPid.
C30_TrackOrderRoundTrips ==
    (/\ urPc = "parsed"
     /\ urState # Undef
     /\ urState.dataSource # "none"
     /\ \E n \in 1..Len(urState.localTrackOrderByPid) :
           Len(urState.localTrackOrderByPid[n][2]) >= 2)
        => urParsed.localTrackOrderByPid = urState.localTrackOrderByPid

\* The URL made of a public state with the order <<1, 0>> of pid 121 has no
\* localTrackOrderByPid parameter, and the state read from it no order.
C30_TrackOrderLost ==
    /\ urPc = "parsed"
    /\ urState = UrlState("public", Null, << <<121, <<1, 0>>>> >>)
    /\ urUrl.search = <<>>
    /\ urParsed.localTrackOrderByPid = <<>>

\* A location with the text 121-0-1~122-1 is read to the order <<0, 1>> of
\* pid 121 alone.
TrackOrderParsed ==
    /\ urPc = "parsed"
    /\ urState = Undef
    /\ urParsed.localTrackOrderByPid = << <<121, <<0, 1>>>> >>

----------------------------------------------------------------------------
(* Claims about expandKeyedArchive *)

\* The values of a value: itself and those written inline below it.
RECURSIVE SubValues(_)
SubValues(value) ==
    {value} \cup
    CASE value.t = "arr" -> UNION {SubValues(value.e[n]) : n \in 1..Len(value.e)}
      [] value.t = "dict" -> UNION {SubValues(value.p[n][2]) : n \in 1..Len(value.p)}
      [] value.t = "map" ->
            UNION {SubValues(value.p[n][1]) \cup SubValues(value.p[n][2]) : n \in 1..Len(value.p)}
      [] OTHER -> {}

UIDsOf(value) == {v.i : v \in {w \in SubValues(value) : w.t = "uid"}}

PtrsOf(value) == {v.i : v \in {w \in SubValues(value) : w.t = "ptr"}}

\* C1: expandKeyedArchive ends after finitely many calls of visit on every
\* archive, cyclic ones included: it never runs out of the calls one per value
\* of the reinterpreted table and of $top allow, and when it returns it has
\* made exactly that many.
C1_ExpansionTerminates ==
    /\ arPhase # "diverged"
    /\ arPhase = "done" => arVisits = NodeCountAll(arPre) + NodeCount(arInput.top)

\* C1 witness: an archive in which entry i refers to entry j and entry j to
\* entry i by UID, or an entry refers to itself, has been expanded.
C1_CycleExpanded ==
    /\ arPhase = "done"
    /\ \E i, j \in ObjectIndices :
          /\ i # j
          /\ j \in UIDsOf(arPre[i + 1])
          /\ i \in UIDsOf(arPre[j + 1])
          /\ i \in UIDsOf(arInput.top)

\* post is what a value pre of the parse tree has become: each UID with an
\* index of the table is now that entry itself (Ptr) or, for a primitive
\* entry, its value; containers keep their shape.
RECURSIVE Resolved(_, _)
Resolved(pre, post) ==
    CASE pre.t = "uid" ->
            pre.i < Len(arPre) =>
                IF IsPrimitive(arPre[pre.i + 1])
                THEN post = arPre[pre.i + 1]
                ELSE post = Ptr(pre.i)
      [] pre.t = "arr" ->
            /\ post.t = "arr" /\ Len(post.e) = Len(pre.e)
            /\ \A n \in 1..Len(pre.e) : Resolved(pre.e[n], post.e[n])
      [] pre.t = "dict" ->
            /\ post.t = "dict" /\ Len(post.p) = Len(pre.p)
            /\ \A n \in 1..Len(pre.p) :
                  post.p[n][1] = pre.p[n][1] /\ Resolved(pre.p[n][2], post.p[n][2])
      [] pre.t = "map" ->
            /\ post.t = "map" /\ Len(post.p) <= Len(pre.p)
            /\ \A n \in 1..Len(pre.p) : \E m \in 1..Len(post.p) :
                  Resolved(pre.p[n][1], post.p[m][1])
            /\ \A m \in 1..Len(post.p) : \E n \in 1..Len(pre.p) :
                  Resolved(pre.p[n][1], post.p[m][1]) /\ Resolved(pre.p[n][2], post.p[m][2])
      [] OTHER -> post = pre

\* C2: after expandKeyedArchive every UID reference with an index of the
\* table, in $top, in an entry, in a sequence or as a key or value of a Map,
\* has been replaced by that one entry of the reinterpreted table, never by a
\* copy of it.
C2_IdentityPreserved ==
    arPhase = "done" =>
        /\ Resolved(arInput.top, arResult)
        /\ \A n \in 1..Len(arPre) : ~isUID(arPre[n]) => Resolved(arPre[n], root.objects[n])

\* C2 witness: the A <-> B archive: A's field is B and B's field is that A,
\* and $top refers to A.
C2_CrossLinked ==
    /\ arPhase = "done"
    /\ arInput.objects = << Dict(<< <<"a", UID(1)>> >>), Dict(<< <<"a", UID(0)>> >>) >>
    /\ root.objects[1] = Dict(<< <<"a", Ptr(1)>> >>)
    /\ root.objects[2] = Dict(<< <<"a", Ptr(0)>> >>)
    /\ arResult = Dict(<< <<"root", Ptr(0)>> >>)

AllUIDsOf(r) == UIDsOf(r.top) \cup UNION {UIDsOf(r.objects[n]) : n \in 1..Len(r.objects)}

\* C3: an archive holding a UID whose index is outside the $objects table is
\* rejected: expandKeyedArchive does not return for it.
C3_OutOfRangeUIDRejected ==
    arPhase = "done" => \A k \in AllUIDsOf(arInput) : k < Len(arInput.objects)

\* The entries of the table reachable from a value through references.
RECURSIVE ReachableFrom(_, _)
ReachableFrom(seen, objects) ==
    LET more == UNION {PtrsOf(objects[k + 1]) : k \in seen} IN
    IF more \subseteq seen THEN seen ELSE ReachableFrom(seen \cup more, objects)

\* C4: when every UID index of the archive is in range, no UID-typed value
\* is reachable from what expandKeyedArchive returns.
C4_FullyDereferenced ==
    (arPhase = "done" /\ \A k \in AllUIDsOf(arInput) : k < Len(arInput.objects)) =>
        /\ UIDsOf(arResult) = {}
        /\ \A k \in ReachableFrom(PtrsOf(arResult), root.objects) :
              UIDsOf(root.objects[k + 1]) = {}

\* C17: an archive whose $version is not 100000, whose $archiver is not
\* NSKeyedArchiver, whose $top is no dictionary or whose $objects is no
\* array is rejected with the error, and the root is left as it was given:
\* no $null substitution, no pattern matching, no resolution.
C17_InvalidArchiveUntouched ==
    (/\ arPhase # "parsed"
     /\ \/ arInput.version # 100000
        \/ arInput.archiver # "NSKeyedArchiver"
        \/ arInput.top.t # "dict"
        \/ ~arInput.isArrayObjects)
        => /\ arPhase = "error"
           /\ root = arInput
           /\ arResult = Undef
           /\ arVisits = 0

\* C17 witness: an archive that fails the $version check alone, and whose
\* table would have had its $null replaced and a tagged entry rewritten,
\* was rejected.
C17_WrongVersionRejected ==
    /\ arPhase = "error"
    /\ arInput.version # 100000
    /\ arInput.archiver = "NSKeyedArchiver"
    /\ arInput.top.t = "dict"
    /\ arInput.isArrayObjects
    /\ arInput.objects[1] = Str("$null")
    /\ arInput.objects[2] = Tagged(1, UID(0))
    /\ root = arInput

\* The digits d_0..d_(n-1) of the placeholder of the archive given.
C18_Digits ==
    LET bytes == Get(arInput.objects[2], "NS.mantissa").b
    IN  [i \in 1..Get(arInput.objects[2], "NS.length").n |->
            bytes[2 * i - 1] + 256 * bytes[2 * i]]

\* d_0 + 65536 * (d_1 + 65536 * (...))
RECURSIVE C18_Magnitude(_)
C18_Magnitude(digits) ==
    IF digits = <<>> THEN 0 ELSE Head(digits) + 65536 * C18_Magnitude(Tail(digits))

\* The placeholder with the negative flag cleared.
C18_Unsigned ==
    LET v == arInput.objects[2]
    IN  DecimalPlaceholder(Get(v, "NS.length").n, Get(v, "NS.exponent").n,
                           Get(v, "NS.mantissa.bo").n, FALSE, Get(v, "NS.mantissa").b)

\* C18: a placeholder with byte order 1, a length n within the mantissa,
\* digits d_0..d_(n-1), an exponent e >= 0 and a sign decodes to
\* sign * (sum of d_i * 65536^i) * 10^e, and with the negative flag set to
\* the negation of what the same placeholder decodes to without it.
C18_DecimalReconstructed ==
    (/\ arPhase = "done"
     /\ Get(arInput.objects[2], "NS.mantissa.bo") = Num(1)
     /\ Get(arInput.objects[2], "NS.length").n <= 2)
        => LET v == arInput.objects[2]
               e == Get(v, "NS.exponent").n
               tens == IF e = 0 THEN 1 ELSE 10
               sign == IF Get(v, "NS.negative") = Bool(TRUE) THEN -1 ELSE 1
           IN  /\ Get(arResult, "root") = Num(sign * C18_Magnitude(C18_Digits) * tens)
               /\ root.objects[2] = Get(arResult, "root")
               /\ Get(v, "NS.negative") = Bool(TRUE)
                    => Get(arResult, "root") = Num(-(decimalNumber(C18_Unsigned).n))

\* C18 witness: the negative two-digit mantissa 513 + 258 * 65536 with
\* exponent 1 was decoded.
C18_NegativeTwoDigits ==
    /\ arPhase = "done"
    /\ arInput.objects[2] = DecimalPlaceholder(2, 1, 1, TRUE, <<1, 2, 2, 1>>)
    /\ Get(arResult, "root") = Num(-169088010)

\* C28: a persistent-symbols object whose count field is n is
\* interpreted to a record whose symbol list has n entries, the fields
\* that follow the count field in order.
C28_SymbolsAsManyAsCount ==
    (arPhase = "done" /\ Get(arInput.objects[2], "$4").t = "num") =>
        LET n == Get(arInput.objects[2], "$4").n
            symbols == Get(root.objects[2], "symbols").e
        IN  /\ Len(symbols) = n
            /\ \A i \in 1..n : symbols[i] = Get(arInput.objects[2], DollarKeys[5 + i])

\* What the interpretation does: the symbol list has n - 1 entries (none
\* when n is 0), which are the first n - 1 fields that follow the count
\* field, in order; the thread names are the field before the count field.
SymbolsOneFewerThanCount ==
    (arPhase = "done" /\ Get(arInput.objects[2], "$4").t = "num") =>
        LET n == Get(arInput.objects[2], "$4").n
            symbols == Get(root.objects[2], "symbols").e
        IN  /\ Len(symbols) = (IF n >= 1 THEN n - 1 ELSE 0)
            /\ \A i \in 1..Len(symbols) :
                  symbols[i] = Get(arInput.objects[2], DollarKeys[5 + i])
            /\ Get(root.objects[2], "threadNames") = Get(arInput.objects[2], "$3")

\* An object with count 3 and three fields after it was interpreted to a
\* list of the first two.
CountThreeTwoSymbols ==
    /\ arPhase = "done"
    /\ arInput.objects[2] = PersistentSymbols(Num(3), <<Str("a"), Str("b"), Str("b")>>)
    /\ Get(root.objects[2], "symbols") = Arr(<<Str("a"), Str("b")>>)

====
